---- MODULE Spec2Model ----
(***************************************************************************)
(* FrogBase (hayabhay/frogbase): a library of media, captions, an          *)
(* embedding cache and a vector index, modelled as a state machine.        *)
(*                                                                         *)
(* The state is one library: its directory tree (media directories, raw    *)
(* sidecar caption files, backup JSON files, the download ledger), its     *)
(* TinyDB store (meta record, Media table, Captions table, model settings) *)
(* and the ModelManager's settings, embedding cache and index.             *)
(* Every operation of the code is an operator from a state record to a     *)
(* state record, so that FrogBase.add can compose MediaManager.add,        *)
(* transcribe, embed and index exactly as the code does.                   *)
(***************************************************************************)
EXTENDS Integers, Sequences, FiniteSets, TLC

VARIABLES
    dirs,           \* names of the media directories that exist in the library directory
    rawVtt,         \* <<dir, lang>>: a downloaded sidecar file media.<lang>.vtt not yet renamed
    media_files,    \* <<dir, ext>>: a media file media.<ext> yt-dlp left in a directory
    archive,        \* the download ledger (downloaded_media.txt): [lines, eol]
    bkup,           \* backup JSON files: [dir, name, kind, row]
    meta,           \* documents of the default table of the store the session opened
    Media,          \* that store's Media table, in document order
    Captions,       \* that store's Captions table, in document order
    doc_ids,        \* the document ids of the rows of that Captions table, in the same order
    model_settings, \* the whisper row of that store's model_settings table
    other_store,    \* the library's store file of the other kind (tinydb.json for a
                    \* dev session, tinydb-dev.json for a release): its tables
    whisper,        \* ModelManager.whisper, the in-memory transcriber settings
    embeddings,     \* the embedding cache file of the sbert model: [exists, entries]
    index,          \* the index file: [exists, max_elements, items]
    index_meta,     \* the label-map file: position -> label, as a sequence
    index_meta_cut, \* the label-map file is there, emptied by an open(.., "w") whose
                    \* json.dump never finished
    clock,          \* datetime.now(), counted in creation events
    models,         \* per session, ModelManager._models: ids of the models held in memory
    inflight,       \* per session, the transcribe or embed call it is inside of
    next_id,        \* per session, Table._next_id of its Captions table (0: None)
    version,        \* FrogBase._version of the running session, as character codes
    library,        \* FrogBase._library, the name of the current library
    default_library,\* FrogBase._default_library, the library the session was opened on
    shelf,          \* the directories of the other libraries of the data directory
    search_index,   \* FrogBase._index, the index the session holds for search
    last            \* the last operation called and what it was observed to do

vars == <<dirs, rawVtt, media_files, archive, bkup, meta, Media, Captions, doc_ids,
          model_settings,
          other_store, whisper, embeddings, index, index_meta, index_meta_cut, clock, models,
          inflight, next_id, version, library, default_library, shelf, search_index, last>>

----------------------------------------------------------------------------
(* Bounds of the model. *)

\* creation events (rows given a `created` timestamp) in one behaviour of the
\* store's specification, of the recovery's, of the deletion's, of the
\* pipeline's, of the interrupted index's and of the growing index's
MaxClock == 3
MaxRecoverClock == 4
MaxDeleteClock == 5
MaxPipelineClock == 5
MaxIndexClock == 3
MaxOpenClock == 3
MaxQueryClock == 4
MaxMemoryClock == 4
MaxLibraryClock == 2
MaxRemoveClock == 3
MaxSettingsClock == 3
MaxConcurrentClock == 4
MaxCacheClock == 5
MaxSourcesClock == 4
MaxStoreRows == 6
MaxGrowClock == 5
MaxSegmentsClock == 4
MaxSearchClock == 3
MaxDemoClock == 6
\* results asked of a search
MaxK == 2
\* vectors in the index file
MaxIndexItems == 6
\* cues in every caption file
NumCues == 2

----------------------------------------------------------------------------
(* Strings, hashing, paths. *)

RECURSIVE JoinT(_)
\* the string a sequence of tokens spells
JoinT(toks) == IF toks = <<>> THEN "" ELSE Head(toks) \o JoinT(Tail(toks))

\* hashlib.sha256(s.encode()).hexdigest()[:16], taken to be injective
Sha(s) == "#" \o s

\* index of the last occurrence of tok in name, 0 when there is none (str.rfind)
RFind(name, tok) ==
    LET I == {i \in 1..Len(name) : name[i] = tok}
    IN  IF I = {} THEN 0 ELSE CHOOSE i \in I : \A j \in I : j <= i

\* pathlib's PurePath.stem of a file or directory name: the name without its
\* last suffix, where a suffix starts at the last "." that is neither the
\* first nor the last character
Stem(name) ==
    LET i == RFind(name, ".")
    IN  IF 1 < i /\ i < Len(name) THEN SubSeq(name, 1, i - 1) ELSE name

----------------------------------------------------------------------------
(* The world outside the library: what yt-dlp downloads for a url, and     *)
(* what ffprobe reports for a local file.                                  *)

Urls == {"u1", "u2"}
Files == {"f1"}
\* strings with a url scheme that no host answers
DeadUrls == {"dead"}
\* "bad": a string that is neither a url nor an existing path
Sources == Urls \cup Files \cup {"bad"}
Langs == {"en", "hi"}

\* the sessions (processes) that work on the library at the same time
Sessions == {"p1", "p2"}
\* a session that is inside no call
Idle == [stage |-> "idle"]

\* library names
Libraries == {"frogverse", "lib2"}
\* the default of the constructor's library argument
DefaultLibrary == "frogverse"
\* a library whose directory does not exist
NoLibrary == [exists |-> FALSE]
\* FrogBase._index = None
NoSearchIndex == [loaded |-> FALSE, items |-> <<>>, meta |-> <<>>]

\* media.info.json of the video behind a url; vtt holds the languages yt-dlp
\* can write a sidecar caption file media.<lang>.vtt for (subtitles and
\* automatic captions)
InfoDict(url) ==
    IF url = "u1"
    THEN [id |-> "v1", title |-> <<"a">>, type |-> "video", subtitles |-> {"en", "hi"},
          vtt |-> {"en", "hi"}, ext |-> "webm", uploader |-> "bbc",
          extractor |-> "youtube"]
    ELSE [id |-> "v2", title |-> <<"a", ".", "b">>, type |-> "video", subtitles |-> {},
          vtt |-> {"en"}, ext |-> "webm", uploader |-> "bbc", extractor |-> "youtube"]

\* outtmpl "%(title).50B::%(id)s": the directory yt-dlp writes a video to
WebDirTokens(url) == InfoDict(url).title \o <<"::", InfoDict(url).id>>
WebDir(url) == JoinT(WebDirTokens(url))

\* a local file: its resolved path, its stem, and ffprobe's duration and size
FileInfo(f) == [path |-> "/home/" \o f \o ".mp3", stem |-> f, duration |-> "42.0", size |-> "1000000"]

----------------------------------------------------------------------------
(* Settings. *)

\* WhisperSettings(): the defaults
WhisperDefaults ==
    [family |-> "whisper", model |-> "base", language |-> "en", verbose |-> "None",
     temperature |-> "tuple"]

\* json round trip (TinyDB's JSONStorage, and model_dump_json then json.load):
\* a tuple comes back as a list, everything else as it was
JsonSettings(st) ==
    IF "temperature" \in DOMAIN st /\ st.temperature = "tuple"
    THEN [st EXCEPT !.temperature = "list"] ELSE st

JsonRow(row) ==
    IF "settings" \in DOMAIN row THEN [row EXCEPT !.settings = JsonSettings(row.settings)] ELSE row

\* Captions.settings = None
NoSettings == [family |-> "None"]

\* the tables of a store file that is not in the library directory
NoStore ==
    [meta |-> <<>>, Media |-> <<>>, Captions |-> <<>>, doc_ids |-> <<>>,
     model_settings |-> NoSettings]

\* HNSWSettings().max_elements
HnswMaxElements == 100000

\* a max_elements the user sets in fb.models.hnsw: room for one media's cues
SmallMaxElements == NumCues + 1

\* the running version of the software, as character codes ("dev")
Version == <<100, 101, 118>>

\* releases of the software, version("frogbase"), and their character codes
Releases == {"0.9.0", "0.10.0"}
VersionChars(v) ==
    IF v = "0.9.0" THEN <<48, 46, 57, 46, 48>>
    ELSE IF v = "0.10.0" THEN <<48, 46, 49, 48, 46, 48>>
    ELSE Version

\* WhisperSettings.get_param_idstr: json.dumps of every field but verbose, keys sorted
get_param_idstr(st) ==
    "{family:" \o st.family \o ",language:" \o st.language \o ",model:" \o st.model
        \o ",temperature:" \o st.temperature \o "}"

----------------------------------------------------------------------------
(* TinyDB tables: sequences of documents. *)

RECURSIVE SelectRows(_, _, _)
\* the documents of a table whose field equals a value, in document order
SelectRows(table, fld, val) ==
    IF table = <<>> THEN <<>>
    ELSE (IF Head(table)[fld] = val THEN <<Head(table)>> ELSE <<>>)
             \o SelectRows(Tail(table), fld, val)

RECURSIVE RemoveRows(_, _, _)
\* Table.remove(Query()[fld] == val)
RemoveRows(table, fld, val) ==
    IF table = <<>> THEN <<>>
    ELSE (IF Head(table)[fld] = val THEN <<>> ELSE <<Head(table)>>)
             \o RemoveRows(Tail(table), fld, val)

\* Table.upsert(row, Query().id == row.id): every matching document is
\* updated with the row's fields; with no match the row is inserted
Upsert(table, row) ==
    IF \E i \in 1..Len(table) : table[i].id = row.id
    THEN [i \in 1..Len(table) |-> IF table[i].id = row.id THEN row ELSE table[i]]
    ELSE Append(table, row)

\* the rows of a table as a set
Rows(table) == {table[i] : i \in 1..Len(table)}

\* how many documents of a table equal a row
CountRow(table, row) == Cardinality({i \in 1..Len(table) : table[i] = row})

\* the two tables hold the same rows the same number of times
SameRows(t1, t2) ==
    /\ Len(t1) = Len(t2)
    /\ \A r \in Rows(t1) \cup Rows(t2) : CountRow(t1, r) = CountRow(t2, r)

RECURSIVE SortDesc(_)
\* sorted(rows, key=created, reverse=True): a stable insertion sort
SortDesc(rows) ==
    IF rows = <<>> THEN <<>>
    ELSE LET rest == SortDesc(Tail(rows))
             h == Head(rows)
             k == Cardinality({i \in 1..Len(rest) : rest[i].created > h.created})
         IN  SubSeq(rest, 1, k) \o <<h>> \o SubSeq(rest, k + 1, Len(rest))

----------------------------------------------------------------------------
(* State records: the variables an operation reads and writes, and what it *)
(* is observed to do (fetched: sources the fetcher ran for; engine: media  *)
(* the transcription engine ran for; encoded: media the embedding engine   *)
(* ran for; cascade: the Captions a Media.delete deleted with the media;   *)
(* added: the objects the call returns; raised: the exception that ended   *)
(* the call). hnsw_max is fb.models.hnsw.max_elements and version the      *)
(* running version of the software, both as the session has them when the  *)
(* operation is called. audio_only is the option of that name of an add.   *)
(* dir_glob, vtt_glob and bkup_glob are the orders in which the file       *)
(* system yields what the operation globs: the media directories of the    *)
(* library, the media.<lang>.vtt files of a directory, the backup files of *)
(* the library. session is the session that calls the operation and models *)
(* the models that session holds in memory.                                *)

(* Where one statement works on what the statement before it left, the     *)
(* operators below are written CHOOSE v \in {F(r) : r \in {x}} : TRUE: the  *)
(* value of F at the state x, with x worked out once.                      *)

RECURSIVE Orders(_)
\* the orders in which a directory listing may yield a set of entries
Orders(S) ==
    IF S = {} THEN {<<>>}
    ELSE UNION {{<<x>> \o t : t \in Orders(S \ {x})} : x \in S}

RECURSIVE KindGlobs(_, _, _)
\* glob("**/.bkup/*.<kind>.fb.json") over backup files B when the media
\* directories are listed in the order ds: directory by directory, the files
\* of one .bkup directory in any order
KindGlobs(ds, B, kind) ==
    IF ds = <<>> THEN {<<>>}
    ELSE {h \o t : h \in Orders({g \in B : g.dir = Head(ds) /\ g.kind = kind}),
                   t \in KindGlobs(Tail(ds), B, kind)}

\* what the two globs of _initdb may yield over the backup files B: both walk
\* the same directories in the same order
BkupGlobs(B) ==
    UNION {[media : KindGlobs(ds, B, "media"), captions : KindGlobs(ds, B, "captions")] :
           ds \in Orders({g.dir : g \in B})}

State ==
    [dirs |-> dirs, rawVtt |-> rawVtt, media_files |-> media_files, archive |-> archive,
     bkup |-> bkup, meta |-> meta,
     Media |-> Media, Captions |-> Captions, doc_ids |-> doc_ids,
     model_settings |-> model_settings,
     other_store |-> other_store,
     whisper |-> whisper, embeddings |-> embeddings, index |-> index,
     index_meta |-> index_meta, index_meta_cut |-> index_meta_cut, clock |-> clock,
     session |-> "p1", models |-> models["p1"],
     inflight |-> inflight, next_id |-> next_id, library |-> library,
     default_library |-> default_library, shelf |-> shelf,
     search_index |-> search_index,
     hnsw_max |-> HnswMaxElements, version |-> version, keep_model_in_memory |-> FALSE,
     audio_only |-> TRUE, dir_glob |-> <<>>, vtt_glob |-> <<>>,
     bkup_glob |-> [media |-> <<>>, captions |-> <<>>],
     added |-> <<>>, fetched |-> {}, engine |-> {}, encoded |-> {}, cascade |-> 0,
     raised |-> "none", found |-> <<>>]

\* write a file of the .bkup directory, replacing the one at the same path
WriteBkup(files, f) ==
    {g \in files : ~(g.dir = f.dir /\ g.name = f.name)} \cup {f}

\* Media._save
Media_save(s, row, to_file) ==
    [s EXCEPT !.Media = Upsert(@, JsonRow(row)),
              !.bkup = IF to_file
                       THEN WriteBkup(@, [dir |-> row.infoloc[1], name |-> row.infoloc[2],
                                          kind |-> "media", row |-> JsonRow(row)])
                       ELSE @]

\* a Captions._save that writes the store row and never the backup file
Captions_save_StoreOnly(s, row, to_file) ==
    LET p == s.session
        ids == {s.doc_ids[i] : i \in 1..Len(s.doc_ids)}
        doc_id == IF s.next_id[p] # 0 THEN s.next_id[p]
                  ELSE IF ids = {} THEN 1
                  ELSE (CHOOSE x \in ids : \A y \in ids : y <= x) + 1
    IN  IF \E i \in 1..Len(s.Captions) : s.Captions[i].id = row.id
        THEN [s EXCEPT !.Captions = Upsert(@, JsonRow(row))]
        ELSE IF doc_id \in ids
        THEN [s EXCEPT !.next_id[p] = doc_id + 1, !.raised = "ValueError"]
        ELSE [s EXCEPT !.Captions = Append(@, JsonRow(row)),
                       !.doc_ids = Append(@, doc_id),
                       !.next_id[p] = doc_id + 1]

\* Captions._save by the session s.session. Table.upsert updates the documents
\* that have the id of the Captions; with none it inserts, under the document
\* id the session's table holds as its next: the last document id of the
\* table plus one when it holds none (1 in an empty table), and from then on
\* one more at each insert. The insert raises when a document of the table
\* has that id, and the backup file is not written then.
Captions_save(s, row, to_file) ==
    LET p == s.session
        ids == {s.doc_ids[i] : i \in 1..Len(s.doc_ids)}
        doc_id == IF s.next_id[p] # 0 THEN s.next_id[p]
                  ELSE IF ids = {} THEN 1
                  ELSE (CHOOSE x \in ids : \A y \in ids : y <= x) + 1
        file == [dir |-> row.infoloc[1], name |-> row.infoloc[2],
                 kind |-> "captions", row |-> JsonRow(row)]
    IN  IF \E i \in 1..Len(s.Captions) : s.Captions[i].id = row.id
        THEN [s EXCEPT !.Captions = Upsert(@, JsonRow(row)),
                       !.bkup = IF to_file THEN WriteBkup(@, file) ELSE @]
        ELSE IF doc_id \in ids
        THEN [s EXCEPT !.next_id[p] = doc_id + 1, !.raised = "ValueError"]
        ELSE [s EXCEPT !.Captions = Append(@, JsonRow(row)),
                       !.doc_ids = Append(@, doc_id),
                       !.next_id[p] = doc_id + 1,
                       !.bkup = IF to_file THEN WriteBkup(@, file) ELSE @]

\* MediaManager.get: by id first, then by source; "none" when there is no such row
NoRow == [id |-> "none"]
MediaGet(table, id) ==
    LET byId == SelectRows(table, "id", id)
        bySrc == SelectRows(table, "src", id)
    IN  IF byId # <<>> THEN byId[1] ELSE IF bySrc # <<>> THEN bySrc[1] ELSE NoRow

\* CaptionsManager.get: the first row with this id and this media_id
CaptionsGet(table, media_id, id) ==
    LET hit == SelectRows(SelectRows(table, "id", id), "media_id", media_id)
    IN  IF hit # <<>> THEN hit[1] ELSE NoRow

\* CaptionsManager.all: the media's rows, newest first
CaptionsAll(table, media_id) == SortDesc(SelectRows(table, "media_id", media_id))

----------------------------------------------------------------------------
(* MediaManager: create. *)

\* the order in which glob() yields the library's media directories

\* The download ledger is a text file. A line is the sequence of the ids
\* written on it: one id when yt-dlp wrote it after a newline, more when
\* entries were appended to a line that had no newline at its end. eol says
\* whether the file ends in a newline (an empty or missing file counts).
NoLedger == [lines |-> <<>>, eol |-> TRUE]

\* yt-dlp's in_download_archive: some line of the ledger is this entry
Listed(ledger, id) == \E i \in 1..Len(ledger.lines) : ledger.lines[i] = <<id>>

\* yt-dlp's record_download_archive: append the entry and a newline
Record(ledger, id) ==
    IF ledger.eol THEN [lines |-> Append(ledger.lines, <<id>>), eol |-> TRUE]
    ELSE [lines |-> [i \in 1..Len(ledger.lines) |->
                        IF i = Len(ledger.lines) THEN ledger.lines[i] \o <<id>>
                        ELSE ledger.lines[i]],
          eol |-> TRUE]

\* Media.delete's rewrite of the ledger: the lines whose second word is not
\* the id, joined by newlines, with no newline after the last
Rewrite(ledger, id) ==
    LET kept == SelectSeq(ledger.lines, LAMBDA line : line # <<id>>)
    IN  [lines |-> kept, eol |-> kept = <<>>]

\* the sidecar caption files ydl.download(url) writes: "subtitleslangs" is
\* ["en"] in the options the code builds, and names every language in the
\* caller's ydl_opts
SidecarLangs(url, withArchive) ==
    IF withArchive THEN InfoDict(url).vtt \cap {"en"} ELSE InfoDict(url).vtt

\* ydl.download(url): yt-dlp skips a video whose id the download ledger lists;
\* otherwise it writes the video's directory (media file, media.info.json and the
\* sidecar media.<lang>.vtt files) and, when given a ledger, lists the id in it.
\* withArchive is FALSE when the call passes its own ydl_opts: the options the
\* code builds, without download_archive and with "subtitleslangs": ["all"].
\* With audio_only the FFmpegExtractAudio postprocessor leaves media.mp3 and
\* removes the file it converted; without, the download stays as media.<ext>.
Download(s, url, withArchive) ==
    LET info == InfoDict(url)
        d == WebDir(url)
    IN  IF withArchive /\ Listed(s.archive, info.id) THEN s
        ELSE [s EXCEPT !.dirs = @ \cup {d},
                       !.rawVtt = @ \cup {<<d, lang>> : lang \in SidecarLangs(url, withArchive)},
                       !.media_files = IF s.audio_only
                                       THEN (@ \ {<<d, info.ext>>}) \cup {<<d, "mp3">>}
                                       ELSE @ \cup {<<d, info.ext>>},
                       !.archive = IF withArchive THEN Record(@, info.id) ELSE @,
                       !.fetched = @ \cup {url}]

\* self._config.db.get(Query().captions.id == captions_id): a query of the
\* store's default table for a document with a nested field captions.id
DbGetCaptions(s, captions_id) ==
    \E i \in 1..Len(s.meta) :
        "captions" \in DOMAIN s.meta[i] /\ s.meta[i].captions.id = captions_id

\* the body of the loop over a directory's media.*.vtt files, for one file
ProcessVtt(s, url, media_id, lang) ==
    LET info == InfoDict(url)
        d == WebDir(url)
        by == IF lang \in info.subtitles THEN info.uploader ELSE info.extractor
        kind == IF lang \in info.subtitles THEN "subtitles" ELSE "captions"
        captions_id == Sha(media_id \o kind \o by \o lang)
        row == [id |-> captions_id, media_id |-> media_id,
                loc |-> <<d, kind \o "::" \o by \o "::" \o lang \o "::" \o captions_id>>,
                infoloc |-> <<d, captions_id \o ".captions.fb.json">>,
                kind |-> kind, lang |-> lang, by |-> by, created |-> s.clock + 1,
                settings |-> NoSettings]
    IN  IF DbGetCaptions(s, captions_id) THEN s
        ELSE Captions_save([s EXCEPT !.rawVtt = @ \ {<<d, lang>>}, !.clock = @ + 1],
                           row, TRUE)

RECURSIVE ProcessVtts(_, _, _, _)
ProcessVtts(s, url, media_id, langs) ==
    IF langs = <<>> \/ s.raised # "none" THEN s
    ELSE CHOOSE v \in {ProcessVtts(r, url, media_id, Tail(langs)) :
                        r \in {IF <<WebDir(url), Head(langs)>> \in s.rawVtt
                               THEN ProcessVtt(s, url, media_id, Head(langs)) ELSE s}} : TRUE

\* the id _add_from_web reads off a media directory's name:
\* infojson.parent.stem.split("::")[-1]
DirMediaId(url) ==
    LET stem == Stem(WebDirTokens(url))
    IN  JoinT(SubSeq(stem, RFind(stem, "::") + 1, Len(stem)))

\* the body of the loop over the library's media.info.json files, for one file
ProcessInfoJson(s, url) ==
    LET info == InfoDict(url)
        d == WebDir(url)
        media_id == DirMediaId(url)
        media_obj == MediaGet(s.Media, media_id)
        media_ext == IF s.audio_only THEN "mp3" ELSE info.ext
        row == [id |-> info.id, loc |-> <<d, "media." \o media_ext>>,
                infoloc |-> <<d, media_id \o ".media.fb.json">>,
                title |-> JoinT(info.title), src |-> url, src_name |-> info.extractor,
                created |-> s.clock + 1]
        s1 == IF media_obj.id = "none"
              THEN Media_save([s EXCEPT !.clock = @ + 1, !.added = Append(@, JsonRow(row))],
                              row, TRUE)
              ELSE s
    IN  IF media_obj.id = "none" /\ info.type # "video" THEN s
        ELSE IF media_obj.id = "none" /\ <<d, media_ext>> \notin s.media_files THEN s
        ELSE CHOOSE v \in {ProcessVtts(r, url, media_id, r.vtt_glob) : r \in {s1}} : TRUE

RECURSIVE ProcessInfoJsons(_, _)
ProcessInfoJsons(s, urls) ==
    IF urls = <<>> \/ s.raised # "none" THEN s
    ELSE CHOOSE v \in {ProcessInfoJsons(r, Tail(urls)) :
                        r \in {IF WebDir(Head(urls)) \in s.dirs
                               THEN ProcessInfoJson(s, Head(urls)) ELSE s}} : TRUE

\* MediaManager._add_from_web
add_from_web(s, url, withArchive) ==
    CHOOSE v \in {ProcessInfoJsons(r, r.dir_glob) :
                   r \in {Download(s, url, withArchive)}} : TRUE

\* the id of a local file: a hash of its resolved path, duration and size
DiskMediaId(f) == Sha(FileInfo(f).path \o FileInfo(f).duration \o FileInfo(f).size)

\* MediaManager._add_from_disk, for a path that is a file
add_from_disk(s, f) ==
    LET fi == FileInfo(f)
        media_id == DiskMediaId(f)
        d == fi.stem \o "::" \o media_id
        row == [id |-> media_id, loc |-> <<d, fi.stem \o ".mp3">>,
                infoloc |-> <<d, media_id \o ".media.fb.json">>,
                title |-> fi.stem, src |-> fi.path, src_name |-> "disk",
                created |-> s.clock + 1]
    IN  IF MediaGet(s.Media, media_id).id # "none" THEN s
        ELSE Media_save([s EXCEPT !.dirs = @ \cup {d}, !.fetched = @ \cup {f},
                                  !.clock = @ + 1, !.added = Append(@, JsonRow(row))],
                        row, TRUE)

RECURSIVE MediaManager_add(_, _, _)
\* MediaManager.add: a source with a url scheme goes to _add_from_web, an
\* existing path to _add_from_disk, anything else is logged as invalid
MediaManager_add(s, sources, withArchive) ==
    IF sources = <<>> \/ s.raised # "none" THEN s
    ELSE IF Head(sources) \in DeadUrls THEN [s EXCEPT !.raised = "DownloadError"]
    ELSE LET src == Head(sources)
             s1 == IF src \in Urls THEN add_from_web(s, src, withArchive)
                   ELSE IF src \in Files THEN add_from_disk(s, src)
                   ELSE s
         IN  CHOOSE v \in {MediaManager_add(r, Tail(sources), withArchive) : r \in {s1}} : TRUE

----------------------------------------------------------------------------
(* Captions: read and delete. Media: delete. *)

\* what latest() leaves for its caller when it raises IndexError
IndexErrorRow == [id |-> "IndexError"]

\* a loop that stops at the newest row whatever its kind
FirstOfKind_Newest(rows, kind) == Head(rows)

RECURSIVE FirstOfKind(_, _)
\* the for loop of latest(): the row it breaks at, or the last row it saw
FirstOfKind(rows, kind) ==
    IF Len(rows) = 1 \/ Head(rows).kind = kind THEN Head(rows)
    ELSE FirstOfKind(Tail(rows), kind)

\* CaptionsManager.latest
latest(table, media_id, prefer_subtitles) ==
    LET captions_dicts == SortDesc(SelectRows(table, "media_id", media_id))
    IN  IF captions_dicts = <<>> THEN IndexErrorRow
        ELSE IF prefer_subtitles THEN FirstOfKind(captions_dicts, "subtitles")
        ELSE captions_dicts[1]

\* Captions.delete
Captions_delete(s, c, bkup_files) ==
    LET docs == RemoveRows([i \in 1..Len(s.Captions) |->
                                [id |-> s.Captions[i].id, doc_id |-> s.doc_ids[i]]],
                           "id", c.id)
        s1 == [s EXCEPT !.Captions = RemoveRows(@, "id", c.id),
                        !.doc_ids = [i \in 1..Len(docs) |-> docs[i].doc_id]]
        file == {g \in s.bkup : g.dir = c.infoloc[1] /\ g.name = c.infoloc[2]}
    IN  IF ~bkup_files THEN s1
        ELSE IF file = {} THEN [s1 EXCEPT !.raised = "FileNotFoundError"]
        ELSE [s1 EXCEPT !.bkup = @ \ file]

RECURSIVE DeleteAll(_, _)
\* the loop of Media.delete over self.captions.all()
DeleteAll(s, cs) ==
    IF cs = <<>> THEN s
    ELSE CHOOSE v \in {DeleteAll(r, Tail(cs)) :
                        r \in {Captions_delete(s, Head(cs), FALSE)}} : TRUE

\* a Media.delete that leaves the media's Captions rows in the store
Media_delete_NoCascade(s, m, bkup_files) ==
    LET d == m.loc[1]
        s1 == [s EXCEPT !.Media = RemoveRows(@, "id", m.id)]
        s3 == [s1 EXCEPT !.dirs = @ \ {d},
                         !.bkup = {g \in @ : g.dir # d},
                         !.rawVtt = {v \in @ : v[1] # d},
                         !.media_files = {v \in @ : v[1] # d}]
    IN  [(IF bkup_files THEN s3 ELSE s1) EXCEPT !.archive = Rewrite(@, m.id)]

\* Media.delete
Media_delete(s, m, bkup_files) ==
    LET d == m.loc[1]
        s1 == [s EXCEPT !.Media = RemoveRows(@, "id", m.id)]
        s2 == [DeleteAll(s1, CaptionsAll(s1.Captions, m.id))
                  EXCEPT !.cascade = Len(CaptionsAll(s1.Captions, m.id))]
        s3 == [s2 EXCEPT !.dirs = @ \ {d},
                         !.bkup = {g \in @ : g.dir # d},
                         !.rawVtt = {v \in @ : v[1] # d},
                         !.media_files = {v \in @ : v[1] # d}]
        s4 == IF bkup_files THEN s3 ELSE s2
    IN  IF bkup_files /\ d \notin s.dirs THEN [s2 EXCEPT !.raised = "FileNotFoundError"]
        ELSE [s4 EXCEPT !.archive = Rewrite(@, m.id)]

----------------------------------------------------------------------------
(* ModelManager: transcribe. *)

\* a call that leaves the model in memory whatever keep_model_in_memory says
ReleaseModel_Never(s, model_id) == s

\* del self._models[model_id] at the end of transcribe and embed
ReleaseModel(s, model_id) ==
    IF ~s.keep_model_in_memory /\ model_id \in s.models
    THEN [s EXCEPT !.models = @ \ {model_id}] ELSE s

\* a loop body that runs the engine without looking for stored captions
TranscribeOne_Rerun(s, m, lang_param) ==
    LET by == s.whisper.family \o ":" \o s.whisper.model
        lang == IF lang_param # "none" THEN lang_param ELSE s.whisper.language
        captions_id == Sha(m.id \o get_param_idstr(s.whisper))
        row == [id |-> captions_id, media_id |-> m.id,
                loc |-> <<m.loc[1], "captions::" \o by \o "::" \o lang \o "::" \o captions_id>>,
                infoloc |-> <<m.loc[1], captions_id \o ".captions.fb.json">>,
                kind |-> "captions", lang |-> lang, by |-> by, created |-> s.clock + 1,
                settings |-> s.whisper]
    IN  Captions_save([s EXCEPT !.engine = @ \cup {m.id}, !.clock = @ + 1,
                                     !.models = @ \cup {by}], row, TRUE)

\* the body of transcribe's loop, for one media object; lang_param is the
\* per-call language parameter, "none" when the call gives none
TranscribeOne(s, m, lang_param) ==
    LET model_settings_ == s.whisper
        by == model_settings_.family \o ":" \o model_settings_.model
        lang == IF lang_param # "none" THEN lang_param ELSE model_settings_.language
        captions_id == Sha(m.id \o get_param_idstr(model_settings_))
        d == m.loc[1]
        row == [id |-> captions_id, media_id |-> m.id,
                loc |-> <<d, "captions::" \o by \o "::" \o lang \o "::" \o captions_id>>,
                infoloc |-> <<d, captions_id \o ".captions.fb.json">>,
                kind |-> "captions", lang |-> lang, by |-> by, created |-> s.clock + 1,
                settings |-> model_settings_]
    IN  IF CaptionsGet(s.Captions, m.id, captions_id).id # "none" THEN s
        ELSE Captions_save([s EXCEPT !.engine = @ \cup {m.id}, !.clock = @ + 1,
                                     !.models = @ \cup {by}], row, TRUE)

RECURSIVE transcribe(_, _, _)
\* ModelManager.transcribe over a list of media objects
transcribe(s, media, lang_param) ==
    IF s.raised # "none" THEN s
    ELSE IF media = <<>> THEN ReleaseModel(s, s.whisper.family \o ":" \o s.whisper.model)
    ELSE CHOOSE v \in {transcribe(r, Tail(media), lang_param) :
                        r \in {TranscribeOne(s, Head(media), lang_param)}} : TRUE

\* transcribe, for one media object, up to its look into the store: the call
\* of session p skips, and ends, when the captions are stored; when they are
\* not it goes on to the engine with the settings it has read, and
\* _run_transcriber loads the model
transcribe_check(s, p, m) ==
    LET by == s.whisper.family \o ":" \o s.whisper.model
        captions_id == Sha(m.id \o get_param_idstr(s.whisper))
    IN  IF CaptionsGet(s.Captions, m.id, captions_id).id # "none" THEN ReleaseModel(s, by)
        ELSE [s EXCEPT !.inflight[p] = [stage |-> "transcribe", m |-> m,
                                        settings |-> s.whisper],
                       !.models = @ \cup {by}]

\* the rest of that call: the engine runs and the Captions are saved by
\* session p. The call that saved releases the model; the one whose save
\* raised never reaches the release.
transcribe_finish(s, p) ==
    LET m == s.inflight[p].m
        model_settings_ == s.inflight[p].settings
        by == model_settings_.family \o ":" \o model_settings_.model
        lang == model_settings_.language
        captions_id == Sha(m.id \o get_param_idstr(model_settings_))
        row == [id |-> captions_id, media_id |-> m.id,
                loc |-> <<m.loc[1], "captions::" \o by \o "::" \o lang \o "::" \o captions_id>>,
                infoloc |-> <<m.loc[1], captions_id \o ".captions.fb.json">>,
                kind |-> "captions", lang |-> lang, by |-> by, created |-> s.clock + 1,
                settings |-> model_settings_]
        s1 == [s EXCEPT !.session = p, !.engine = @ \cup {m.id}, !.clock = @ + 1,
                        !.inflight[p] = Idle]
    IN  CHOOSE v \in {IF saved.raised # "none" THEN saved ELSE ReleaseModel(saved, by) :
                       saved \in {Captions_save(s1, row, TRUE)}} : TRUE

----------------------------------------------------------------------------
(* ModelManager: embed. The cache is a dict in insertion order, a sequence *)
(* of entries with distinct keys.                                          *)

\* SBertSettings().model
SbertModel == "msmarco-MiniLM-L-6-v3"

\* list(captions_obj.load()): the cues of a caption file, ids 0 .. NumCues - 1
Cues == [i \in 1..NumCues |-> i - 1]

\* the start times of the cues of a Captions' file. The file is what the
\* uploader or the engine wrote for the language of the Captions: the cues of
\* speech taken for English start every ten seconds; taken for another
\* language the first cue of a local file starts a second later, and so does
\* the last cue of a video
StartTimestamps(c) ==
    [i \in 1..NumCues |->
        10 * (i - 1)
        + (IF c.lang = "en" THEN 0
           ELSE IF c.media_id \in {DiskMediaId(f) : f \in Files}
                THEN (IF i = 1 THEN 1 ELSE 0)
                ELSE (IF i = NumCues THEN 1 ELSE 0))]

\* dict assignment embeddings[key] = entry: in place when the key is there
PutEntry(entries, entry) ==
    IF \E i \in 1..Len(entries) : entries[i].key = entry.key
    THEN [i \in 1..Len(entries) |-> IF entries[i].key = entry.key THEN entry ELSE entries[i]]
    ELSE Append(entries, entry)

\* a loop body that encodes whether or not the cache has the key
EmbedOne_Always(s, m, overwrite) ==
    LET captions_obj == latest(s.Captions, m.id, TRUE)
        entry == [key |-> Sha(m.id \o SbertModel), media_id |-> m.id,
                  captions_id |-> captions_obj.id, model |-> SbertModel,
                  embeddings |-> [i \in 1..NumCues |-> <<captions_obj.id, Cues[i]>>],
                  start_timestamps |-> StartTimestamps(captions_obj), segment_ids |-> Cues]
    IN  IF s.raised # "none" THEN s
        ELSE IF captions_obj = IndexErrorRow THEN [s EXCEPT !.raised = "IndexError"]
        ELSE [s EXCEPT !.embeddings.entries = PutEntry(@, entry),
                       !.encoded = @ \cup {m.id}]

\* the body of embed's loop, for one media object; s.embeddings.entries is
\* the dict `embeddings` the call holds in memory
EmbedOne(s, m, overwrite) ==
    LET captions_obj == latest(s.Captions, m.id, TRUE)
        embed_id == Sha(m.id \o SbertModel)
        entry == [key |-> embed_id, media_id |-> m.id, captions_id |-> captions_obj.id,
                  model |-> SbertModel,
                  embeddings |-> [i \in 1..NumCues |-> <<captions_obj.id, Cues[i]>>],
                  start_timestamps |-> StartTimestamps(captions_obj), segment_ids |-> Cues]
    IN  IF s.raised # "none" THEN s
        ELSE IF captions_obj = IndexErrorRow THEN [s EXCEPT !.raised = "IndexError"]
        ELSE IF (\E i \in 1..Len(s.embeddings.entries) : s.embeddings.entries[i].key = embed_id)
                /\ ~overwrite THEN s
        ELSE [s EXCEPT !.embeddings.entries = PutEntry(@, entry),
                       !.encoded = @ \cup {m.id}]

RECURSIVE EmbedLoop(_, _, _)
EmbedLoop(s, media, overwrite) ==
    IF media = <<>> THEN s
    ELSE CHOOSE v \in {EmbedLoop(r, Tail(media), overwrite) :
                        r \in {EmbedOne(s, Head(media), overwrite)}} : TRUE

\* ModelManager.embed: load the cache file if it exists, embed, write the file
embed(s, media, overwrite) ==
    LET loaded == [s EXCEPT !.embeddings.entries = IF s.embeddings.exists THEN @ ELSE <<>>,
                            !.models = @ \cup {"sbert:" \o SbertModel}]
    IN  CHOOSE v \in {IF done.raised # "none" THEN [done EXCEPT !.embeddings = s.embeddings]
                       ELSE ReleaseModel([done EXCEPT !.embeddings.exists = TRUE],
                                         "sbert:" \o SbertModel) :
                       done \in {EmbedLoop(loaded, media, overwrite)}} : TRUE

\* embed, for one media object, up to pickle.load: session p has loaded the
\* model and holds the dict it has read from the cache file
embed_load(s, p, m, overwrite) ==
    [s EXCEPT !.inflight[p] = [stage |-> "embed", m |-> m, overwrite |-> overwrite,
                               loaded |-> IF s.embeddings.exists
                                          THEN s.embeddings.entries ELSE <<>>],
              !.models = @ \cup {"sbert:" \o SbertModel}]

\* the rest of that call: the loop over the dict it holds, then pickle.dump
\* and the release of the model
embed_finish(s, p) ==
    LET job == s.inflight[p]
        done == EmbedLoop([s EXCEPT !.embeddings.entries = job.loaded, !.inflight[p] = Idle],
                          <<job.m>>, job.overwrite)
    IN  IF done.raised # "none" THEN [done EXCEPT !.embeddings = s.embeddings]
        ELSE ReleaseModel([done EXCEPT !.embeddings.exists = TRUE], "sbert:" \o SbertModel)

----------------------------------------------------------------------------
(* ModelManager: index. *)

RECURSIVE TotalElements(_)
TotalElements(entries) ==
    IF entries = <<>> THEN 0 ELSE Len(Head(entries).embeddings) + TotalElements(Tail(entries))

\* the label of one segment of a cache entry
Label(meta_, i) ==
    <<meta_.media_id, meta_.captions_id, meta_.segment_ids[i], meta_.start_timestamps[i]>>

RECURSIVE EntryLabels(_, _, _)
\* the inner loop of index over an entry's segments from segment i on: the
\* labels appended before the loop ends or breaks at a label already indexed
EntryLabels(meta_, i, indexed) ==
    IF i > Len(meta_.segment_ids) \/ Label(meta_, i) \in indexed THEN <<>>
    ELSE <<Label(meta_, i)>> \o EntryLabels(meta_, i + 1, indexed)

RECURSIVE ScanLabels(_, _)
ScanLabels(entries, indexed) ==
    IF entries = <<>> THEN <<>>
    ELSE EntryLabels(Head(entries), 1, indexed) \o ScanLabels(Tail(entries), indexed)

RECURSIVE ScanData(_, _)
ScanData(entries, indexed) ==
    IF entries = <<>> THEN <<>>
    ELSE (IF \E i \in 1..Len(Head(entries).segment_ids) :
                 Label(Head(entries), i) \in indexed
          THEN <<>> ELSE Head(entries).embeddings)
             \o ScanData(Tail(entries), indexed)

\* a capacity that grows an existing index to the total number of elements
Capacity_Total(idx, total_elements, hnsw_max) ==
    IF idx.exists
    THEN IF idx.max_elements < total_elements THEN total_elements ELSE idx.max_elements
    ELSE IF hnsw_max > total_elements THEN hnsw_max ELSE total_elements * 10

\* a capacity that is never enlarged
Capacity_Fixed(idx, total_elements, hnsw_max) ==
    IF idx.exists THEN idx.max_elements ELSE hnsw_max

\* the capacity of the index object after it is loaded or created
Capacity(idx, total_elements, hnsw_max) ==
    IF idx.exists
    THEN IF idx.max_elements < total_elements THEN total_elements * 10
         ELSE idx.max_elements
    ELSE IF hnsw_max > total_elements THEN hnsw_max ELSE total_elements * 10

\* a label_map that numbers the new labels from position 0
LabelMap_FromZero(latest_index_value, labels) ==
    [p \in 0..(Len(labels) - 1) |-> labels[p + 1]]

\* label_map: the new labels at the positions from index.element_count on
LabelMap(latest_index_value, labels) ==
    [p \in latest_index_value..(latest_index_value + Len(labels) - 1)
        |-> labels[p - latest_index_value + 1]]

\* a set of indexed labels that is always empty
Indexed_None(index_meta_) == {}

\* indexed = set(index_meta.values())
Indexed(index_meta_) == {index_meta_[p] : p \in DOMAIN index_meta_}

\* ModelManager.index once the cache file is known to exist. persist says how
\* far the final block gets: "both" files saved; the index file saved and the
\* label-map file opened for writing, which empties it, when the call is
\* interrupted inside json.dump ("cut"); only the "index" file saved when it
\* is interrupted before the label map is opened; "none" when it is
\* interrupted before either. A label map is only ever written with entries
\* in it, so an empty one that is not cut stands for a label-map file that is
\* not there; json.load of a cut one raises JSONDecodeError.
\* With labels and no vectors np.concatenate raises ValueError; with more
\* labels than vectors, or more vectors than room, add_items raises RuntimeError.
IndexBuild(s, persist) ==
    LET entries == s.embeddings.entries
        total_elements == TotalElements(entries)
        max_elements == Capacity(s.index, total_elements, s.hnsw_max)
        items == IF s.index.exists THEN s.index.items ELSE <<>>
        index_meta_ == IF s.index.exists THEN s.index_meta ELSE <<>>
        indexed == Indexed(index_meta_)
        labels == ScanLabels(entries, indexed)
        data == ScanData(entries, indexed)
        latest_index_value == Len(items)
        label_map == LabelMap(latest_index_value, labels)
    IN  IF entries = <<>> THEN [s EXCEPT !.raised = "TypeError"]
        ELSE IF s.index.exists /\ s.index_meta_cut
             THEN [s EXCEPT !.raised = "JSONDecodeError"]
        ELSE IF s.index.exists /\ s.index_meta = <<>>
             THEN [s EXCEPT !.raised = "FileNotFoundError"]
        ELSE IF labels = <<>> THEN s
        ELSE IF data = <<>> THEN [s EXCEPT !.raised = "ValueError"]
        ELSE IF Len(data) # Len(labels) THEN [s EXCEPT !.raised = "RuntimeError"]
        ELSE IF latest_index_value + Len(labels) > max_elements
             THEN [s EXCEPT !.raised = "RuntimeError"]
        ELSE IF persist = "none" THEN [s EXCEPT !.raised = "Interrupted"]
        ELSE IF persist = "index"
             THEN [s EXCEPT !.index = [exists |-> TRUE, max_elements |-> max_elements,
                                       items |-> items \o data],
                            !.raised = "Interrupted"]
        ELSE IF persist = "cut"
             THEN [s EXCEPT !.index = [exists |-> TRUE, max_elements |-> max_elements,
                                       items |-> items \o data],
                            !.index_meta = <<>>, !.index_meta_cut = TRUE,
                            !.raised = "Interrupted"]
        ELSE [s EXCEPT !.index = [exists |-> TRUE, max_elements |-> max_elements,
                                  items |-> items \o data],
                       !.index_meta = [p \in DOMAIN index_meta_ \cup DOMAIN label_map |->
                                          IF p \in DOMAIN label_map THEN label_map[p]
                                          ELSE index_meta_[p]],
                       !.index_meta_cut = FALSE]

\* an index call that does not look for the cache file
ModelManager_index_NoCheck(s) == IndexBuild(s, "both")

\* ModelManager.index
ModelManager_index(s) ==
    IF ~s.embeddings.exists THEN s ELSE IndexBuild(s, "both")

----------------------------------------------------------------------------
(* FrogBase: open a library, add. *)

RECURSIVE StrLess(_, _)
\* Python's < on strings
StrLess(a, b) ==
    IF b = <<>> THEN FALSE
    ELSE IF a = <<>> THEN TRUE
    ELSE IF Head(a) # Head(b) THEN Head(a) < Head(b)
    ELSE StrLess(Tail(a), Tail(b))

\* the names of the settings get_param_idstr dumps, as character codes
KeyChars(k) ==
    IF k = "family" THEN <<102, 97, 109, 105, 108, 121>>
    ELSE IF k = "language" THEN <<108, 97, 110, 103, 117, 97, 103, 101>>
    ELSE IF k = "model" THEN <<109, 111, 100, 101, 108>>
    ELSE <<116, 101, 109, 112, 101, 114, 97, 116, 117, 114, 101>>

\* the orders in which a settings dict can hold its keys
KeyOrders ==
    {o \in [1..4 -> {"family", "language", "model", "temperature"}] :
        \A i, j \in 1..4 : o[i] = o[j] => i = j}

\* self.model_dump(exclude={"verbose"}) of settings whose keys are in that order
model_dump(st, order) == [i \in 1..4 |-> <<order[i], st[order[i]]>>]

\* a dump that leaves the keys in the order the dict has them
SortKeys_AsGiven(params) == params

RECURSIVE SortKeys(_)
\* json.dumps(..., sort_keys=True): the items in the order of their keys
SortKeys(params) ==
    IF params = <<>> THEN <<>>
    ELSE LET rest == SortKeys(Tail(params))
             before == SelectSeq(rest, LAMBDA kv : StrLess(KeyChars(kv[1]), KeyChars(Head(params)[1])))
             after == SelectSeq(rest, LAMBDA kv : ~StrLess(KeyChars(kv[1]), KeyChars(Head(params)[1])))
         IN  before \o <<Head(params)>> \o after

RECURSIVE JsonItems(_)
JsonItems(items) ==
    IF items = <<>> THEN ""
    ELSE Head(items)[1] \o ":" \o Head(items)[2]
            \o (IF Len(items) > 1 THEN "," ELSE "") \o JsonItems(Tail(items))

\* json.dumps(params, sort_keys=True)
json_dumps(params) == "{" \o JsonItems(SortKeys(params)) \o "}"

\* transcribe's loop body for settings whose dict holds its keys in that order
TranscribeDumped(s, m, order) ==
    LET model_settings_ == s.whisper
        by == model_settings_.family \o ":" \o model_settings_.model
        lang == model_settings_.language
        captions_id == Sha(m.id \o json_dumps(model_dump(model_settings_, order)))
        d == m.loc[1]
        row == [id |-> captions_id, media_id |-> m.id,
                loc |-> <<d, "captions::" \o by \o "::" \o lang \o "::" \o captions_id>>,
                infoloc |-> <<d, captions_id \o ".captions.fb.json">>,
                kind |-> "captions", lang |-> lang, by |-> by, created |-> s.clock + 1,
                settings |-> model_settings_]
    IN  IF CaptionsGet(s.Captions, m.id, captions_id).id # "none" THEN s
        ELSE Captions_save([s EXCEPT !.engine = @ \cup {m.id}, !.clock = @ + 1,
                                     !.models = @ \cup {by}], row, TRUE)

\* _initdb finds a store whose meta record has a version older than the
\* running one
Stale(s, file_exists) ==
    LET truthy == file_exists /\ Len(s.meta) > 0
        metas == IF truthy THEN SelectRows(s.meta, "type", "meta") ELSE <<>>
    IN  metas # <<>> /\ StrLess(metas[1].version, s.version)

\* _initdb makes a new store and globs the backup files: the store is falsy
\* (no file, or no document in its default table) or stale
Rebuilds(s, file_exists) ==
    ~(file_exists /\ Len(s.meta) > 0) \/ Stale(s, file_exists)

\* ModelManager.save_settings: the session's settings are upserted into the
\* store's model_settings table
save_settings(s) == [s EXCEPT !.model_settings = JsonSettings(s.whisper)]

\* FrogBase._initdb, then the ModelManager the library setter builds: it holds
\* no model, and loads the settings from the store and saves them. The store
\* is a new TinyDB, whose Captions table holds no next document id until its
\* first insert; insert_multiple of the captions backups is that insert.
\* file_exists: whether the store file is there when the library is opened.
\* s.bkup_glob is what the globs over the backup files of the library yield.
initdb(s, file_exists) ==
    LET kept == file_exists /\ ~Stale(s, file_exists)
        fresh == Rebuilds(s, file_exists)
        old == IF kept THEN [s EXCEPT !.next_id[s.session] = 0]
               ELSE [s EXCEPT !.meta = <<>>, !.Media = <<>>, !.Captions = <<>>,
                              !.doc_ids = <<>>, !.model_settings = NoSettings,
                              !.next_id[s.session] = 0]
        ids == {old.doc_ids[i] : i \in 1..Len(old.doc_ids)}
        last_id == IF ids = {} THEN 0 ELSE CHOOSE x \in ids : \A y \in ids : y <= x
        n == Len(s.bkup_glob.captions)
        s1 == IF fresh
              THEN [old EXCEPT
                       !.meta = Append(@, [type |-> "meta", version |-> s.version]),
                       !.Media = @ \o [i \in 1..Len(s.bkup_glob.media)
                                           |-> s.bkup_glob.media[i].row],
                       !.Captions = @ \o [i \in 1..n |-> s.bkup_glob.captions[i].row],
                       !.doc_ids = @ \o [i \in 1..n |-> last_id + i],
                       !.next_id[s.session] = IF n = 0 THEN 0 ELSE last_id + n + 1]
              ELSE old
        settings == IF s1.model_settings = NoSettings THEN WhisperDefaults
                    ELSE [s1.model_settings EXCEPT !.temperature = "tuple"]
    IN  save_settings([s1 EXCEPT !.whisper = settings, !.models = {}])

\* FrogBase._initdb on a store file that cannot be loaded: the read in the
\* try raises, the handler closes and unlinks the file, and the test of
\* db_meta that follows reads a name the handler never bound
initdb_unreadable(s) ==
    [s EXCEPT !.meta = <<>>, !.Media = <<>>, !.Captions = <<>>, !.doc_ids = <<>>,
              !.model_settings = NoSettings, !.next_id[s.session] = 0,
              !.raised = "UnboundLocalError"]

\* the dicts filter is called with, by name
ByDict(name) ==
    IF name = "src_name=youtube" THEN [src_name |-> "youtube"]
    ELSE IF name = "src_name=disk" THEN [src_name |-> "disk"]
    ELSE IF name = "src_name=youtube,title=a" THEN [src_name |-> "youtube", title |-> "a"]
    ELSE <<>>
ByNames == {"", "src_name=youtube", "src_name=disk", "src_name=youtube,title=a"}

\* Query().fragment(by): the document holds every key of by with its value
Fragment(row, by) == \A k \in DOMAIN by : k \in DOMAIN row /\ row[k] = by[k]

\* a filter that does not look at the captions
filter_AnyCaptions(s, captioned, by) ==
    SortDesc(SelectSeq(s.Media, LAMBDA row : Fragment(row, by)))

\* MediaManager.filter; captioned is "None", "True" or "False", and
\* Media.has_captions is whether the media has a row in the Captions table
filter(s, captioned, by) ==
    LET filtered_media == SortDesc(SelectSeq(s.Media, LAMBDA row : Fragment(row, by)))
    IN  IF captioned # "None"
        THEN SelectSeq(filtered_media,
                       LAMBDA m : (Len(CaptionsAll(s.Captions, m.id)) > 0)
                                      <=> (captioned = "True"))
        ELSE filtered_media

\* MediaManager.captioned: search(Query().caption.exists())
captioned(s) == SortDesc(SelectSeq(s.Media, LAMBDA row : "caption" \in DOMAIN row))

\* self._dbpath.exists(): the store file the session opens (tinydb-dev.json
\* for a dev session, tinydb.json for a release) is in the library directory.
\* A store file holds a document from the start: _initdb inserts the meta
\* record into the file it makes, and the ModelManager built after it saves
\* its settings there.
dbpath_exists(s) ==
    [meta |-> s.meta, Media |-> s.Media, Captions |-> s.Captions, doc_ids |-> s.doc_ids,
     model_settings |-> s.model_settings] # NoStore

\* a library directory with nothing in it
EmptyLibrary ==
    [exists |-> TRUE, dirs |-> {}, rawVtt |-> {}, media_files |-> {},
     archive |-> NoLedger, bkup |-> {},
     dev_store |-> NoStore, rel_store |-> NoStore,
     embeddings |-> [exists |-> FALSE, entries |-> <<>>],
     index |-> [exists |-> FALSE, max_elements |-> 0, items |-> <<>>],
     index_meta |-> <<>>, index_meta_cut |-> FALSE]

\* what the directory of the current library holds; dev_store is the tables
\* of tinydb-dev.json and rel_store those of tinydb.json, of which the
\* session has opened the one of its kind
LibraryDir(s) ==
    LET opened == [meta |-> s.meta, Media |-> s.Media, Captions |-> s.Captions,
                   doc_ids |-> s.doc_ids, model_settings |-> s.model_settings]
    IN  [exists |-> TRUE, dirs |-> s.dirs, rawVtt |-> s.rawVtt,
         media_files |-> s.media_files, archive |-> s.archive, bkup |-> s.bkup,
         dev_store |-> IF s.version = Version THEN opened ELSE s.other_store,
         rel_store |-> IF s.version = Version THEN s.other_store ELSE opened,
         embeddings |-> s.embeddings, index |-> s.index, index_meta |-> s.index_meta,
         index_meta_cut |-> s.index_meta_cut]

\* the session turns to the library directory d, named name: new managers,
\* no model in memory, and of the two store files the one of its kind
EnterLibrary(s, name, d) ==
    LET mine == IF s.version = Version THEN d.dev_store ELSE d.rel_store
    IN  [s EXCEPT !.library = name, !.models = {},
                  !.dirs = d.dirs, !.rawVtt = d.rawVtt, !.media_files = d.media_files,
                  !.archive = d.archive, !.bkup = d.bkup,
                  !.meta = mine.meta, !.Media = mine.Media, !.Captions = mine.Captions,
                  !.doc_ids = mine.doc_ids,
                  !.model_settings = mine.model_settings,
                  !.other_store = IF s.version = Version THEN d.rel_store ELSE d.dev_store,
                  !.embeddings = d.embeddings, !.index = d.index,
                  !.index_meta = d.index_meta, !.index_meta_cut = d.index_meta_cut]

\* the library setter up to _initdb: the session turns to the directory of
\* the library of that name in the data directory, made when it is not there
Entered(s, name) ==
    LET d == s.shelf[name]
    IN  EnterLibrary([s EXCEPT !.shelf[name] = NoLibrary], name,
                     IF d.exists THEN d ELSE EmptyLibrary)

\* the library setter: mkdir, _initdb, new managers
set_library(s, name) ==
    CHOOSE v \in {initdb(r, dbpath_exists(r)) :
                   r \in {Entered([s EXCEPT !.shelf[s.library] = LibraryDir(s)], name)}} : TRUE

\* a remove_library that stays in the library it removed
remove_library_Stay(s, name) ==
    IF name = s.library THEN EnterLibrary(s, name, EmptyLibrary)
    ELSE IF ~s.shelf[name].exists THEN [s EXCEPT !.raised = "FileNotFoundError"]
    ELSE [s EXCEPT !.shelf[name] = NoLibrary]

\* FrogBase.remove_library: rmtree of the directory; when it was the current
\* library's, the setter is called with the library the session was opened on
remove_library(s, name) ==
    IF name = s.library
    THEN CHOOSE v \in {initdb(r, dbpath_exists(r)) :
                        r \in {Entered(s, s.default_library)}} : TRUE
    ELSE IF ~s.shelf[name].exists THEN [s EXCEPT !.raised = "FileNotFoundError"]
    ELSE [s EXCEPT !.shelf[name] = NoLibrary]

\* FrogBase(datadir, library, dev) up to _initdb: a new session of the running
\* version v on the data directory, opened on that library
NewSession(s, v, library_) ==
    Entered([s EXCEPT !.shelf[s.library] = LibraryDir(s), !.version = v,
                      !.default_library = library_, !.search_index = NoSearchIndex],
            library_)

\* self._index = self.models.index(...): index returns None without a cache
\* file, and else the index and the label map it holds when it ends
KeepIndex(s) ==
    CHOOSE v \in {IF s1.raised # "none" THEN s1
                   ELSE IF ~s1.embeddings.exists
                        THEN [s1 EXCEPT !.search_index = NoSearchIndex]
                   ELSE [s1 EXCEPT !.search_index = [loaded |-> TRUE,
                                                     items |-> s1.index.items,
                                                     meta |-> s1.index_meta]] :
                   s1 \in {ModelManager_index(s)}} : TRUE

\* FrogBase.add: media.add, transcribe, embed, index; an exception of one
\* ends the call there
FrogBase_add(s, sources, withArchive) ==
    CHOOSE v \in
        {IF s1.raised # "none" THEN s1
         ELSE CHOOSE w \in
                 {IF s3.raised # "none" THEN s3 ELSE KeepIndex(s3) :
                     s3 \in {CHOOSE x \in
                                {IF s2.raised # "none" THEN s2 ELSE embed(s2, s1.added, FALSE) :
                                    s2 \in {IF s1.added # <<>>
                                            THEN transcribe(s1, s1.added, "none")
                                            ELSE s1}} : TRUE}} : TRUE :
            s1 \in {MediaManager_add(s, sources, withArchive)}} : TRUE

\* the loop of search over the entity ids knn_query returned
RECURSIVE SearchResults(_, _)
SearchResults(s, hits) ==
    IF hits = <<>> \/ s.raised # "none" THEN s
    ELSE LET entity_id == Head(hits)
             label == s.search_index.meta[entity_id]
             media_obj == MediaGet(s.Media, label[1])
             captions_obj == CaptionsGet(s.Captions, label[1], label[2])
         IN  IF entity_id \notin DOMAIN s.search_index.meta
             THEN [s EXCEPT !.raised = "KeyError"]
             ELSE IF media_obj.id = "none" \/ captions_obj.id = "none"
             THEN [s EXCEPT !.raised = "AttributeError"]
             ELSE IF label[3] >= NumCues THEN [s EXCEPT !.raised = "IndexError"]
             ELSE SearchResults([s EXCEPT !.found = Append(@, label)], Tail(hits))

\* FrogBase.search up to knn_query: the index is built when the session
\* holds none
search_load(s) == IF s.search_index.loaded THEN s ELSE KeepIndex(s)

\* what knn_query(query, k) may return for some query: k positions of the
\* index the session holds, nearest first
Nearest(s, k) ==
    LET n == Len(search_load(s).search_index.items)
        reaches == search_load(s).raised = "none" /\ search_load(s).search_index.loaded
    IN  IF ~reaches \/ k > n THEN {<<>>}
        ELSE {h \in [1..k -> 0..(n - 1)] : \A i, j \in 1..k : h[i] = h[j] => i = j}

\* FrogBase.search(query, k); hits is what knn_query returns
FrogBase_search(s, k, hits) ==
    LET s1 == search_load(s)
    IN  IF s1.raised # "none" THEN s1
        ELSE IF ~s1.search_index.loaded THEN [s1 EXCEPT !.raised = "ValueError"]
        ELSE IF k > Len(s1.search_index.items) THEN [s1 EXCEPT !.raised = "RuntimeError"]
        ELSE SearchResults(s1, hits)

----------------------------------------------------------------------------
(* The state machine. `last` records the last operation called: its name,  *)
(* the media id or the source it was called on, its flag, the language the *)
(* call asked the transcription engine for, and what it was observed to do.*)

\* the variables after an operation that ended in state record s (r is its
\* value)
Becomes(s, op, arg, flag, lang) ==
  \E r \in {s} :
    /\ dirs' = r.dirs
    /\ rawVtt' = r.rawVtt
    /\ media_files' = r.media_files
    /\ archive' = r.archive
    /\ bkup' = r.bkup
    /\ meta' = r.meta
    /\ Media' = r.Media
    /\ Captions' = r.Captions
    /\ doc_ids' = r.doc_ids
    /\ model_settings' = r.model_settings
    /\ whisper' = r.whisper
    /\ embeddings' = r.embeddings
    /\ index' = r.index
    /\ index_meta' = r.index_meta
    /\ index_meta_cut' = r.index_meta_cut
    /\ other_store' = r.other_store
    /\ default_library' = r.default_library
    /\ clock' = r.clock
    /\ models' = [models EXCEPT ![r.session] = r.models]
    /\ inflight' = r.inflight
    /\ next_id' = r.next_id
    /\ version' = r.version
    /\ library' = r.library
    /\ shelf' = r.shelf
    /\ search_index' = r.search_index
    /\ last' = [op |-> op, arg |-> arg, flag |-> flag, lang |-> lang,
                fetched |-> r.fetched, engine |-> r.engine, encoded |-> r.encoded,
                cascade |-> r.cascade, raised |-> r.raised, found |-> r.found]

Init ==
    /\ dirs = {}
    /\ rawVtt = {}
    /\ media_files = {}
    /\ archive = NoLedger
    /\ bkup = {}
    /\ meta = <<[type |-> "meta", version |-> Version]>>
    /\ Media = <<>>
    /\ Captions = <<>>
    /\ doc_ids = <<>>
    /\ model_settings = JsonSettings(WhisperDefaults)
    /\ other_store = NoStore
    /\ whisper = WhisperDefaults
    /\ embeddings = [exists |-> FALSE, entries |-> <<>>]
    /\ index = [exists |-> FALSE, max_elements |-> 0, items |-> <<>>]
    /\ index_meta = <<>>
    /\ index_meta_cut = FALSE
    /\ clock = 0
    /\ models = [p \in Sessions |-> {}]
    /\ inflight = [p \in Sessions |-> Idle]
    /\ next_id = [p \in Sessions |-> 0]
    /\ version = Version
    /\ library = DefaultLibrary
    /\ default_library = DefaultLibrary
    /\ shelf = [l \in Libraries |-> NoLibrary]
    /\ search_index = NoSearchIndex
    /\ last = [op |-> "init", arg |-> "", flag |-> FALSE, lang |-> "none",
               fetched |-> {}, engine |-> {}, encoded |-> {}, cascade |-> 0,
               raised |-> "none", found |-> <<>>]

\* the orders of the globs of an add of sources: over the directories of the
\* videos that are in the library or are downloaded into it, and over the
\* sidecar caption files yt-dlp left or leaves in a directory; only
\* _add_from_web globs. The loop over the directories does nothing for a
\* directory whose media is stored and that holds no sidecar file, wherever
\* the glob yields it: such directories are put first, in one order.
\* fetched is the urls the call downloads, one source after the other: each
\* download reads the ledger as the downloads before it left it.
WebGlobs(sources, withArchive) ==
    LET urls == {sources[i] : i \in 1..Len(sources)} \cap Urls
        fetched == MediaManager_add(State, sources, withArchive).fetched \cap Urls
        there == {u \in Urls : WebDir(u) \in dirs}
        idle == {u \in there \ fetched :
                    /\ MediaGet(Media, DirMediaId(u)).id # "none"
                    /\ \A v \in rawVtt : v[1] # WebDir(u)}
        first == CHOOSE o \in Orders(idle) : TRUE
    IN  IF urls = {} THEN {[dirs |-> <<>>, vtts |-> <<>>]}
        ELSE [dirs : {first \o o : o \in Orders((there \cup fetched) \ idle)},
              vtts : Orders({v[2] : v \in rawVtt}
                            \cup UNION {SidecarLangs(u, withArchive) : u \in fetched})]

\* fb.media.add(source), a single source; withArchive is FALSE when the call
\* passes its own ydl_opts: the options the code builds, without download_archive
\* and with "subtitleslangs": ["all"]
MediaAdd ==
    \E source \in Sources, withArchive \in BOOLEAN :
      \E o \in WebGlobs(<<source>>, withArchive) :
        /\ source \in Urls \/ withArchive
        /\ Becomes(MediaManager_add([State EXCEPT !.dir_glob = o.dirs, !.vtt_glob = o.vtts],
                                    <<source>>, withArchive),
                   "media.add", "", FALSE, "none")

\* fb.media.add([a, b]), a list of two sources
MediaAddList ==
    \E a \in Sources \cup DeadUrls, b \in Sources \cup DeadUrls :
      \E o \in WebGlobs(<<a, b>>, TRUE) :
        Becomes(MediaManager_add([State EXCEPT !.dir_glob = o.dirs, !.vtt_glob = o.vtts],
                                 <<a, b>>, TRUE),
                "media.add.list", a \o "," \o b, FALSE, "none")

\* fb.models.transcribe(m, language=lang_param) for a media object of the library
Transcribe ==
    \E m \in Rows(Media), lang_param \in {"none"} \cup Langs :
        Becomes(transcribe(State, <<m>>, lang_param), "transcribe",
                m.id, FALSE, IF lang_param # "none" THEN lang_param ELSE whisper.language)

\* fb.models.whisper.language = lang; when it follows a transcribe call, `last`
\* keeps that call's media and language
SetLanguage ==
    \E lang \in Langs \ {whisper.language} :
        IF last.op \in {"transcribe", "set_language"}
        THEN Becomes([State EXCEPT !.whisper.language = lang], "set_language",
                     last.arg, FALSE, last.lang)
        ELSE Becomes([State EXCEPT !.whisper.language = lang], "set_language",
                     "", FALSE, "none")

\* fb.models.save_settings()
SaveSettings ==
    Becomes(save_settings(State), "save_settings", "", FALSE, "none")

\* fb.media.add(source) by the session that fills the library; it is closed
\* before the sessions that work on the library at the same time open it
Fill ==
    /\ last.op \in {"init", "media.add", "transcribe"}
    /\ \E source \in Sources, withArchive \in BOOLEAN :
         \E o \in WebGlobs(<<source>>, withArchive) :
           /\ source \in Urls \/ withArchive
           /\ Becomes([MediaManager_add([State EXCEPT !.dir_glob = o.dirs,
                                                      !.vtt_glob = o.vtts],
                                        <<source>>, withArchive)
                          EXCEPT !.next_id = next_id],
                      "media.add", "", FALSE, "none")

\* fb.models.transcribe(m) by the session that fills the library
FillCaptions ==
    /\ last.op \in {"init", "media.add", "transcribe"}
    /\ \E m \in Rows(Media), lang_param \in {"none"} \cup Langs :
         Becomes([transcribe(State, <<m>>, lang_param) EXCEPT !.next_id = next_id],
                 "transcribe", m.id, FALSE,
                 IF lang_param # "none" THEN lang_param ELSE whisper.language)

\* m.delete(bkup_files) for a media object of the library
DeleteMedia ==
    \E m \in Rows(Media), bkup_files \in BOOLEAN :
        Becomes(Media_delete(State, m, bkup_files), "media.delete", m.id, bkup_files, "none")

\* the Media object a caller still holds for a source after its delete(): its
\* id and the location of its media file
HeldMedia(src) ==
    IF src \in Urls THEN [id |-> InfoDict(src).id, loc |-> <<WebDir(src), "media.mp3">>]
    ELSE [id |-> DiskMediaId(src),
          loc |-> <<FileInfo(src).stem \o "::" \o DiskMediaId(src), FileInfo(src).stem \o ".mp3">>]

\* m.delete(bkup_files) once more on the object whose delete() just returned
DeleteAgain ==
    \E src \in Urls \cup Files, bkup_files \in BOOLEAN :
        /\ last.op \in {"media.delete", "media.delete.again"}
        /\ last.arg = HeldMedia(src).id
        /\ MediaGet(Media, HeldMedia(src).id).id = "none"
        /\ Becomes(Media_delete(State, HeldMedia(src), bkup_files), "media.delete.again",
                   HeldMedia(src).id, bkup_files, "none")

\* c.delete(bkup_files) for a captions object of the library
DeleteCaptions ==
    \E c \in Rows(Captions), bkup_files \in BOOLEAN :
        Becomes(Captions_delete(State, c, bkup_files), "captions.delete", "", bkup_files,
                "none")

\* fb.models.embed(m, overwrite=overwrite) for a media object of the library
Embed ==
    \E m \in Rows(Media), overwrite \in BOOLEAN :
        Becomes(embed(State, <<m>>, overwrite), "embed", m.id, overwrite, "none")

\* fb.models.embed([a, b]) for two media objects of the library
EmbedList ==
    \E a \in Rows(Media), b \in Rows(Media) :
        /\ a.id # b.id
        /\ Becomes(embed(State, <<a, b>>, FALSE), "embed.list", a.id \o "," \o b.id,
                   FALSE, "none")

\* fb.media.filter(captioned=c, **by); arg names c and by
Filter ==
    \E c \in {"None", "True", "False"}, name \in ByNames :
        Becomes([State EXCEPT !.found = filter(State, c, ByDict(name))], "filter",
                c \o "|" \o name, c # "None", "none")

\* fb.media.captioned()
Captioned ==
    Becomes([State EXCEPT !.found = captioned(State)], "captioned", "", FALSE, "none")

\* fb.models.transcribe(m, keep_model_in_memory=keep)
TranscribeKeeping ==
    \E m \in Rows(Media), keep \in BOOLEAN :
        Becomes(transcribe([State EXCEPT !.keep_model_in_memory = keep], <<m>>, "none"),
                "transcribe.keep", m.id, keep, whisper.language)

\* fb.models.embed(m, keep_model_in_memory=keep)
EmbedKeeping ==
    \E m \in Rows(Media), keep \in BOOLEAN :
        Becomes(embed([State EXCEPT !.keep_model_in_memory = keep], <<m>>, FALSE),
                "embed.keep", m.id, keep, "none")

\* fb.models.transcribe(m) with settings whose dict was built in some key order
TranscribeReordered ==
    \E m \in Rows(Media), order \in KeyOrders :
        Becomes(ReleaseModel(TranscribeDumped(State, m, order),
                             whisper.family \o ":" \o whisper.model),
                "transcribe.reordered", m.id,
                order # <<"family", "language", "model", "temperature">>, whisper.language)

\* session p, opened on the filled library, calls fb.models.transcribe(m) and
\* reaches the check of the store;
\* flag: the captions were not found and the call goes on to the engine
TranscribeBegin ==
    \E p \in Sessions, m \in Rows(Media) :
        /\ inflight[p] = Idle
        /\ Becomes(transcribe_check([State EXCEPT !.session = p, !.models = models[p]], p, m),
                   "transcribe.begin", m.id,
                   transcribe_check(State, p, m).inflight[p] # Idle, "none")

\* the engine of session p's transcribe call returns and the call saves
TranscribeEnd ==
    \E p \in Sessions :
        /\ inflight[p].stage = "transcribe"
        /\ Becomes(transcribe_finish([State EXCEPT !.session = p, !.models = models[p]], p),
                   "transcribe.end", inflight[p].m.id, FALSE, "none")

\* session p calls fb.models.embed(m, overwrite=overwrite) and has read the cache
EmbedBegin ==
    \E p \in Sessions, m \in Rows(Media), overwrite \in BOOLEAN :
        /\ inflight[p] = Idle
        /\ Becomes(embed_load([State EXCEPT !.session = p, !.models = models[p]], p, m,
                              overwrite),
                   "embed.begin", m.id, overwrite, "none")

\* session p's embed call encodes and writes the cache file
EmbedEnd ==
    \E p \in Sessions :
        /\ inflight[p].stage = "embed"
        /\ Becomes(embed_finish([State EXCEPT !.session = p, !.models = models[p]], p),
                   "embed.end", inflight[p].m.id, inflight[p].overwrite, "none")

\* fb.models.index(), with fb.models.hnsw.max_elements as it is set at the call
Index ==
    \E hnsw_max \in {HnswMaxElements, SmallMaxElements} :
        Becomes(ModelManager_index([State EXCEPT !.hnsw_max = hnsw_max]), "index",
                "", FALSE, "none")

\* fb.models.index() killed in its final block: before save_index, between
\* save_index and open(index_metapath, "w"), or inside json.dump;
\* flag: the index file was saved
IndexCrash ==
    \E hnsw_max \in {HnswMaxElements, SmallMaxElements}, persist \in {"none", "index", "cut"} :
        /\ embeddings.exists
        /\ Becomes(IndexBuild([State EXCEPT !.hnsw_max = hnsw_max], persist),
                   "index.crash", "", persist # "none", "none")

\* fb.add(source), with fb.models.hnsw.max_elements as it is set at the call
FrogBaseAdd ==
    \E source \in Sources, hnsw_max \in {HnswMaxElements, SmallMaxElements} :
      \E o \in WebGlobs(<<source>>, TRUE) :
        Becomes(FrogBase_add([State EXCEPT !.dir_glob = o.dirs, !.vtt_glob = o.vtts,
                                           !.hnsw_max = hnsw_max],
                             <<source>>, TRUE),
                "add", source, TRUE, "none")

\* fb.demo(): add(sources, audio_only=False) on its two urls
Demo ==
    \E o \in WebGlobs(<<"u1", "u2">>, TRUE) :
        Becomes(FrogBase_add([State EXCEPT !.dir_glob = o.dirs, !.vtt_glob = o.vtts,
                                           !.audio_only = FALSE],
                             <<"u1", "u2">>, TRUE),
                "demo", "", FALSE, "none")

\* fb.search(query, k) for some query; arg is k
Search ==
    \E k \in 1..MaxK :
        \E hits \in Nearest(State, k) :
            Becomes(FrogBase_search(State, k, hits), "search", ToString(k), FALSE, "none")

\* the data directory is opened again by the running version (a new
\* FrogBase(datadir, library, dev=True)); lost: the store file it opens was
\* there and was removed since, the backup files remain. The globs of _initdb run, and yield the
\* backup files in some order, when it makes a new store
Open ==
    \E library_ \in Libraries, lost \in BOOLEAN :
      \E r \in {NewSession(State, Version, library_)} :
        \E g \in BkupGlobs(IF Rebuilds(r, ~lost /\ dbpath_exists(r)) THEN r.bkup ELSE {}) :
          /\ lost => dbpath_exists(r)
          /\ Becomes(initdb([r EXCEPT !.bkup_glob = g], ~lost /\ dbpath_exists(r)),
                     "open", "", lost, "none")

\* the data directory is opened again by a release of the software
OpenRelease ==
    \E v \in Releases, library_ \in Libraries, lost \in BOOLEAN :
      \E r \in {NewSession(State, VersionChars(v), library_)} :
        \E g \in BkupGlobs(IF Rebuilds(r, ~lost /\ dbpath_exists(r)) THEN r.bkup ELSE {}) :
          /\ lost => dbpath_exists(r)
          /\ Becomes(initdb([r EXCEPT !.bkup_glob = g], ~lost /\ dbpath_exists(r)),
                     "open", v, lost, "none")

\* the data directory is opened by a release while the store file it opens is
\* there and not loadable
OpenUnreadable ==
    \E v \in Releases, library_ \in Libraries :
      \E r \in {NewSession(State, VersionChars(v), library_)} :
        /\ dbpath_exists(r)
        /\ Becomes(initdb_unreadable(r), "open.unreadable", v, FALSE, "none")

\* fb.library = name; the globs of _initdb run over the backup files in the
\* directory of that library
SetLibrary ==
    \E name \in Libraries :
        \E g \in BkupGlobs(IF name = library THEN bkup
                            ELSE IF shelf[name].exists THEN shelf[name].bkup ELSE {}) :
            Becomes(set_library([State EXCEPT !.bkup_glob = g], name), "library.set",
                    name, name = library, "none")

\* fb.remove_library(name); flag: name is the current library
RemoveLibrary ==
    \E name \in Libraries :
        \E g \in BkupGlobs(IF name = library /\ name # default_library
                               /\ shelf[default_library].exists
                            THEN shelf[default_library].bkup ELSE {}) :
            Becomes(remove_library([State EXCEPT !.bkup_glob = g], name),
                    "library.remove", name, name = library, "none")

\* the store's default table is emptied (db.truncate()): the store file
\* stays, with its Media and Captions tables and without a meta record
TruncateDefault ==
    /\ version # Version
    /\ Becomes([State EXCEPT !.meta = <<>>], "truncate", "", FALSE, "none")

\* the library's store in one session: media and captions are added,
\* transcribed and deleted, and the language setting is changed (opening the
\* library again is the recovery's specification)
Next ==
    \/ MediaAdd /\ clock' <= MaxClock
    \/ Transcribe /\ clock' <= MaxClock
    \/ SetLanguage /\ clock' <= MaxClock
    \/ DeleteMedia /\ clock' <= MaxClock
    \/ DeleteCaptions /\ clock' <= MaxClock

Spec == Init /\ [][Next]_vars

\* the pipeline: add runs every stage, and the stages are run one by one
NextPipeline ==
    \/ FrogBaseAdd /\ clock' <= MaxPipelineClock
    \/ Transcribe /\ clock' <= MaxPipelineClock
    \/ SetLanguage /\ clock' <= MaxPipelineClock
    \/ Embed /\ clock' <= MaxPipelineClock
    \/ Index /\ clock' <= MaxPipelineClock

SpecPipeline == Init /\ [][NextPipeline]_vars

\* a library that only grows (add and transcribe), opened again at any time,
\* with or without its store file
NextRecover ==
    \/ MediaAdd /\ clock' <= MaxRecoverClock
    \/ Transcribe /\ clock' <= MaxRecoverClock
    \/ Open /\ library' = library /\ clock' <= MaxRecoverClock

SpecRecover == Init /\ [][NextRecover]_vars

\* a library whose media are added, transcribed and deleted
NextDelete ==
    \/ MediaAdd /\ clock' <= MaxDeleteClock
    \/ Transcribe /\ clock' <= MaxDeleteClock
    \/ DeleteMedia /\ clock' <= MaxDeleteClock
    \/ DeleteAgain /\ clock' <= MaxDeleteClock

SpecDelete == Init /\ [][NextDelete]_vars

\* the index of a library whose captions come and go
NextIndex ==
    \/ MediaAdd /\ clock' <= MaxIndexClock
    \/ Transcribe /\ clock' <= MaxIndexClock
    \/ DeleteCaptions /\ clock' <= MaxIndexClock
    \/ Embed /\ clock' <= MaxIndexClock
    \/ Index /\ clock' <= MaxIndexClock /\ Len(index'.items) <= MaxIndexItems

SpecIndex == Init /\ [][NextIndex]_vars

\* index calls that are killed in their final block
NextCrash ==
    \/ MediaAdd /\ clock' <= MaxIndexClock
    \/ Transcribe /\ clock' <= MaxIndexClock
    \/ Embed /\ clock' <= MaxIndexClock
    \/ Index /\ clock' <= MaxIndexClock /\ Len(index'.items) <= MaxIndexItems
    \/ IndexCrash /\ clock' <= MaxIndexClock /\ Len(index'.items) <= MaxIndexItems

SpecCrash == Init /\ [][NextCrash]_vars

\* the index of a library that add fills and deletes empty
NextGrow ==
    \/ FrogBaseAdd /\ clock' <= MaxGrowClock
    \/ DeleteMedia /\ clock' <= MaxGrowClock
    \/ DeleteCaptions /\ clock' <= MaxGrowClock
    \/ Embed /\ ~last'.flag /\ clock' <= MaxGrowClock
    \/ Index /\ clock' <= MaxGrowClock

SpecGrow == Init /\ [][NextGrow]_vars

\* Captions that are generated, deleted and generated again, embedded and
\* indexed
NextSegments ==
    \/ MediaAdd /\ clock' <= MaxSegmentsClock
    \/ Transcribe /\ clock' <= MaxSegmentsClock
    \/ DeleteCaptions /\ clock' <= MaxSegmentsClock
    \/ Embed /\ clock' <= MaxSegmentsClock
    \/ Index /\ clock' <= MaxSegmentsClock

SpecSegments == Init /\ [][NextSegments]_vars

\* a session that adds, deletes, changes library and searches
NextSearch ==
    \/ FrogBaseAdd /\ clock' <= MaxSearchClock
    \/ DeleteMedia /\ clock' <= MaxSearchClock
    \/ DeleteCaptions /\ clock' <= MaxSearchClock
    \/ SetLibrary /\ clock' <= MaxSearchClock
    \/ RemoveLibrary /\ clock' <= MaxSearchClock
    \/ Search /\ clock' <= MaxSearchClock

SpecSearch == Init /\ [][NextSearch]_vars

\* a library opened by one release after another; an open that raised leaves
\* no session, and the library is opened again before anything else is called
NextOpen ==
    \/ MediaAdd /\ clock' <= MaxOpenClock /\ last.raised # "UnboundLocalError"
    \/ DeleteMedia /\ clock' <= MaxOpenClock /\ last.raised # "UnboundLocalError"
    \/ OpenUnreadable /\ library' = library /\ clock' <= MaxOpenClock
    \/ OpenRelease /\ library' = library /\ clock' <= MaxOpenClock
           /\ Len(Media') + Len(Captions') <= MaxStoreRows
    \/ TruncateDefault /\ clock' <= MaxOpenClock /\ last.raised # "UnboundLocalError"

SpecOpen == Init /\ [][NextOpen]_vars

\* a library filled from lists of sources
NextSources ==
    \/ MediaAddList /\ clock' <= MaxSourcesClock
    \/ DeleteMedia /\ clock' <= MaxSourcesClock

SpecSources == Init /\ [][NextSources]_vars

\* two sessions on one library that was filled before they opened it
NextConcurrent ==
    \/ Fill /\ clock' <= MaxConcurrentClock
    \/ TranscribeBegin /\ clock' <= MaxConcurrentClock
    \/ TranscribeEnd /\ clock' <= MaxConcurrentClock

SpecConcurrent == Init /\ [][NextConcurrent]_vars

\* two sessions that embed into the cache file of a library that was filled
\* before they opened it
NextCache ==
    \/ Fill /\ clock' <= MaxCacheClock
    \/ FillCaptions /\ clock' <= MaxCacheClock
    \/ EmbedBegin /\ clock' <= MaxCacheClock
    \/ EmbedEnd /\ clock' <= MaxCacheClock

SpecCache == Init /\ [][NextCache]_vars

\* the demo, in a library whose media are deleted and added again
NextDemo ==
    \/ Demo /\ clock' <= MaxDemoClock
    \/ MediaAdd /\ clock' <= MaxDemoClock
    \/ DeleteMedia /\ clock' <= MaxDemoClock

SpecDemo == Init /\ [][NextDemo]_vars

\* transcribe calls with settings built in every key order, set, saved and
\* loaded again
NextSettings ==
    \/ MediaAdd /\ clock' <= MaxSettingsClock
    \/ SetLanguage /\ clock' <= MaxSettingsClock
    \/ SaveSettings /\ clock' <= MaxSettingsClock
    \/ TranscribeReordered /\ clock' <= MaxSettingsClock
    \/ Open /\ library' = library /\ clock' <= MaxSettingsClock

SpecSettings == Init /\ [][NextSettings]_vars

\* the libraries of a data directory, opened by one release after another
NextLibrary ==
    \/ MediaAdd /\ clock' <= MaxLibraryClock
    \/ OpenRelease /\ clock' <= MaxLibraryClock
    \/ SetLibrary /\ clock' <= MaxLibraryClock
    \/ RemoveLibrary /\ clock' <= MaxLibraryClock

SpecLibrary == Init /\ [][NextLibrary]_vars

\* libraries of one data directory that sessions of the running version are
\* opened on, turn to and remove
NextRemove ==
    \/ MediaAdd /\ clock' <= MaxRemoveClock
    \/ Open /\ clock' <= MaxRemoveClock
    \/ SetLibrary /\ clock' <= MaxRemoveClock
    \/ RemoveLibrary /\ clock' <= MaxRemoveClock

SpecRemove == Init /\ [][NextRemove]_vars

\* the models a session holds in memory
NextMemory ==
    \/ MediaAdd /\ clock' <= MaxMemoryClock
    \/ TranscribeKeeping /\ clock' <= MaxMemoryClock
    \/ EmbedKeeping /\ clock' <= MaxMemoryClock
    \/ EmbedList /\ clock' <= MaxMemoryClock

SpecMemory == Init /\ [][NextMemory]_vars

\* queries of the Media table
NextQuery ==
    \/ MediaAdd /\ clock' <= MaxQueryClock
    \/ Transcribe /\ clock' <= MaxQueryClock
    \/ Filter /\ clock' <= MaxQueryClock
    \/ Captioned /\ clock' <= MaxQueryClock

SpecQuery == Init /\ [][NextQuery]_vars

----------------------------------------------------------------------------
(* Properties. *)

\* the stored Captions rows of media id m generated under the settings st
CaptionsFor(table, m, st) ==
    {i \in 1..Len(table) : table[i].media_id = m /\ table[i].settings = JsonSettings(st)}

\* the stored Captions rows whose media_id is m
CaptionsOf(table, m) == {r \in Rows(table) : r.media_id = m}

\* the rows held by the backup files of one kind
BackupRows(kind) == {g.row : g \in {h \in bkup : h.kind = kind}}

\* the cache entry of a key, as a set (empty when the cache has no such key)
EntryOf(cache, key) ==
    IF cache.exists THEN {e \in Rows(cache.entries) : e.key = key} ELSE {}

\* C1: a transcribe call on media m under settings s leaves exactly one
\* Captions row for (m, s); when such a row is already stored the call does not
\* run the engine and changes no row, and otherwise it runs the engine for m once.
C1_TranscribeOncePerSettings ==
    [][last'.op = "transcribe" =>
         LET m == last'.arg
             before == CaptionsFor(Captions, m, whisper)
         IN  /\ whisper' = whisper
             /\ Cardinality(CaptionsFor(Captions', m, whisper)) = 1
             /\ before # {} => last'.engine = {} /\ Captions' = Captions
             /\ before = {} => last'.engine = {m}]_vars

\* a transcribe call that found the captions of its media and settings stored
C1_Witness ==
    /\ last.op = "transcribe"
    /\ last.engine = {}
    /\ Cardinality(CaptionsFor(Captions, last.arg, whisper)) = 1

\* C2: a transcribe call on the media of the previous transcribe call, asking
\* for another language (by the manager's settings or by a per-call parameter),
\* runs the engine and leaves two Captions rows of that media side by side,
\* one in each language.
C2_ChangedLanguageMakesSecondCaptions ==
    [][(/\ last.op \in {"transcribe", "set_language"}
        /\ last'.op = "transcribe"
        /\ last'.arg = last.arg
        /\ last'.lang # last.lang)
       => /\ last'.engine = {last'.arg}
          /\ \E r1, r2 \in CaptionsOf(Captions', last'.arg) :
                r1.id # r2.id /\ r1.lang = last.lang /\ r2.lang = last'.lang]_vars

\* C3: MediaManager.add leaves at most one Media row per id and leaves every
\* row that was stored before the call as it was.
C3_AddKeepsStoredMedia ==
    [][last'.op = "media.add" =>
         /\ \A i, j \in 1..Len(Media') : Media'[i].id = Media'[j].id => i = j
         /\ \A r \in Rows(Media) : r \in Rows(Media')]_vars

\* C4: FrogBase.add called again with the sources of the previous FrogBase.add,
\* nothing having changed in between, changes neither table, nor the
\* embedding cache, nor the label map, and runs neither engine.
C4_SecondAddIsNoOp ==
    [][(last.op = "add" /\ last'.op = "add" /\ last'.arg = last.arg)
       => /\ Media' = Media
          /\ Captions' = Captions
          /\ embeddings' = embeddings
          /\ index_meta' = index_meta
          /\ last'.engine = {}
          /\ last'.encoded = {}]_vars

\* C5: in a library reached through add and transcribe, opening the library
\* without its store file rebuilds Media and Captions tables with the rows the
\* lost tables had.
C5_RecoveryRebuildsTables ==
    [][(last'.op = "open" /\ last'.flag)
       => SameRows(Media, Media') /\ SameRows(Captions, Captions')]_vars

\* a library opened without its store file that got back a media, a sidecar
\* and a generated Captions row from the backup files
C5_Witness ==
    /\ last.op = "open"
    /\ last.flag
    /\ Media # <<>>
    /\ \E r \in Rows(Captions) : r.kind = "subtitles"
    /\ \E r \in Rows(Captions) : r.kind = "captions" /\ r.settings.temperature = "list"

\* C6: the Media and Captions rows of the store are the rows of the backup
\* files, whichever operations ran and whatever their flags were.
C6_StoreMatchesBackups ==
    /\ Rows(Media) = BackupRows("media")
    /\ Rows(Captions) = BackupRows("captions")

\* C7: Media.delete() on a stored media removes its row, every Captions row
\* with its media_id and every backup file of those rows, and leaves the
\* Captions rows of other media, and the backup files of the Captions of other
\* stored media, as they were.
C7_DeleteCascades ==
    [][(last'.op = "media.delete" /\ last'.flag) =>
         LET m == last'.arg IN
         /\ last'.raised = "none"
         /\ \A r \in Rows(Media') : r.id # m
         /\ CaptionsOf(Captions', m) = {}
         /\ \A g \in bkup' : /\ ~(g.kind = "media" /\ g.row.id = m)
                             /\ ~(g.kind = "captions" /\ g.row.media_id = m)
         /\ Rows(Captions') = {r \in Rows(Captions) : r.media_id # m}
         /\ Len(Captions') = Len(Captions) - last'.cascade
         /\ \A g \in bkup : (/\ g.kind = "captions"
                             /\ \E r \in Rows(Media') : r.id = g.row.media_id)
                            => g \in bkup']_vars

\* a Media.delete() that took Captions rows with it and left those of another media
C7_Witness ==
    /\ last.op = "media.delete"
    /\ last.flag
    /\ last.cascade >= 1
    /\ \E r \in Rows(Media) : CaptionsOf(Captions, r.id) # {}

\* C8: for a stored media with Captions rows and no subtitles among them,
\* latest() returns a row whose created timestamp is the greatest.
C8_LatestIsNewest ==
    \A m \in Rows(Media) :
        LET own == CaptionsOf(Captions, m.id) IN
        (own # {} /\ \A r \in own : r.kind # "subtitles")
        => \A r \in own : r.created <= latest(Captions, m.id, TRUE).created

\* C9: for a stored media with subtitles among its Captions rows, latest()
\* returns its most recent subtitles row, whatever generated captions came later.
C9_LatestPrefersSubtitles ==
    \A m \in Rows(Media) :
        LET subs == {r \in CaptionsOf(Captions, m.id) : r.kind = "subtitles"}
            got == latest(Captions, m.id, TRUE)
        IN  subs # {} => got \in subs /\ \A r \in subs : r.created <= got.created

\* a media with two subtitles rows and generated captions newer than both
C9_Witness ==
    \E m \in Rows(Media) :
        \E r1, r2, c \in CaptionsOf(Captions, m.id) :
            /\ r1.kind = "subtitles" /\ r2.kind = "subtitles" /\ c.kind = "captions"
            /\ r1.created < r2.created /\ r2.created < c.created
            /\ latest(Captions, m.id, TRUE) = r2

\* C10: embed with overwrite False on a media whose key is in the cache does
\* not run the encoder for it and leaves its cache entry as it was.
C10_EmbedKeepsCachedEntry ==
    [][(/\ last'.op = "embed"
        /\ ~last'.flag
        /\ EntryOf(embeddings, Sha(last'.arg \o SbertModel)) # {})
       => /\ last'.arg \notin last'.encoded
          /\ EntryOf(embeddings', Sha(last'.arg \o SbertModel))
                = EntryOf(embeddings, Sha(last'.arg \o SbertModel))]_vars

\* an embed call with overwrite False that kept the entry of a media which had
\* gained Captions newer than the ones the entry was made from
C10_Witness ==
    /\ last.op = "embed"
    /\ ~last.flag
    /\ last.encoded = {}
    /\ \E e \in EntryOf(embeddings, Sha(last.arg \o SbertModel)) :
          \E old, new \in CaptionsOf(Captions, last.arg) :
              old.id = e.captions_id /\ old.created < new.created

\* the media ids that occur in the labels of the label map
LabelledMedia == {index_meta[p][1] : p \in DOMAIN index_meta}

\* C11: no label occurs at two positions of the label map and no vector at two
\* positions of the index, whatever transcribe, embed and index calls ran.
C11_NoLabelTwice ==
    /\ \A p, q \in DOMAIN index_meta : index_meta[p] = index_meta[q] => p = q
    /\ \A i, j \in 1..Len(index.items) : index.items[i] = index.items[j] => i = j

\* an index call on a cache of two media, one of them indexed before
C11_Witness ==
    /\ last.op \in {"index", "add"}
    /\ Cardinality(LabelledMedia) >= 2
    /\ Cardinality(DOMAIN index_meta) = Len(index.items)

\* the labels an index call gives new positions, in the library as it is
NewLabels ==
    ScanLabels(IF embeddings.exists THEN embeddings.entries ELSE <<>>,
               Indexed(IF index.exists THEN index_meta ELSE <<>>))

\* the vectors an index call inserts, in the library as it is
NewVectors ==
    ScanData(IF embeddings.exists THEN embeddings.entries ELSE <<>>,
             Indexed(IF index.exists THEN index_meta ELSE <<>>))

\* the index file, loaded as an index call loads it, has no room for the
\* vectors the call inserts (an index the call creates always has)
LacksRoom ==
    /\ index.exists /\ embeddings.exists
    /\ Len(NewVectors) = Len(NewLabels)
    /\ Len(index.items) + Len(NewLabels)
           > Capacity(index, TotalElements(embeddings.entries), HnswMaxElements)

\* C12: an index call never fails for lack of capacity, and whenever it
\* inserts vectors the capacity of the index it saves is at least the number
\* of elements the index then holds.
C12_CapacityCoversInsert ==
    [][last'.op \in {"index", "add"} =>
         /\ last'.raised = "RuntimeError" => ~LacksRoom'
         /\ index' # index => index'.max_elements >= Len(index'.items)]_vars

\* an index call that inserted into an index it had to enlarge
C12_Witness ==
    /\ last.op \in {"index", "add"}
    /\ index.exists
    /\ Len(index.items) > SmallMaxElements
    /\ index.max_elements = 10 * Len(index.items)

\* C13: whether or not index calls were interrupted, the positions of the
\* saved label map are the positions of the elements of the saved index, and
\* the saved index holds no vector twice.
C13_IndexAndLabelMapAgree ==
    /\ DOMAIN index_meta = 0..(Len(index.items) - 1)
    /\ \A i, j \in 1..Len(index.items) : index.items[i] = index.items[j] => i = j

\* C14: every step (an index call, one that enlarges the index included, a
\* Media or Captions delete, an add, an embed) leaves every position -> label
\* entry and every vector of the index as it was.
C14_LabelMapOnlyGrows ==
    [][/\ \A p \in DOMAIN index_meta :
              p \in DOMAIN index_meta' /\ index_meta'[p] = index_meta[p]
       /\ \A i \in 1..Len(index.items) :
              i <= Len(index'.items) /\ index'.items[i] = index.items[i]]_vars

\* a Media delete that left the labels of the deleted media in a label map
\* which an earlier index call had enlarged
C14_Witness ==
    /\ last.op = "media.delete"
    /\ \E m \in LabelledMedia : \A r \in Rows(Media) : r.id # m
    /\ Len(index.items) > SmallMaxElements
    /\ index.max_elements = 10 * Len(index.items)

\* C19: an index call in a library without an embedding cache file raises
\* nothing, creates no index file and no label-map file, and changes nothing
\* else in the library.
C19_IndexWithoutCache ==
    [][(last'.op = "index" /\ ~embeddings.exists) =>
         /\ last'.raised = "none"
         /\ UNCHANGED <<dirs, rawVtt, media_files, archive, bkup, meta, Media, Captions,
                        model_settings, whisper, embeddings, index, index_meta, clock>>]_vars

\* an index call in a library with captions and no embedding cache
C19_Witness ==
    /\ last.op = "index"
    /\ ~embeddings.exists
    /\ ~index.exists
    /\ Captions # <<>>

RECURSIVE ReleaseNumbers(_, _)
\* the release numbers of a version string: "0.10.0" is <<0, 10, 0>>; n is the
\* number read so far
ReleaseNumbers(chars, n) ==
    IF chars = <<>> THEN <<n>>
    ELSE IF Head(chars) = 46 THEN <<n>> \o ReleaseNumbers(Tail(chars), 0)
    ELSE ReleaseNumbers(Tail(chars), 10 * n + (Head(chars) - 48))

RECURSIVE NumbersLess(_, _)
\* the order of release numbers
NumbersLess(a, b) ==
    IF b = <<>> THEN FALSE
    ELSE IF a = <<>> THEN TRUE
    ELSE IF Head(a) # Head(b) THEN Head(a) < Head(b)
    ELSE NumbersLess(Tail(a), Tail(b))

\* whether the store's meta record was written by a release older than v
StoreOlderThan(v) ==
    /\ meta # <<>>
    /\ \E w \in Releases : meta[1].version = VersionChars(w)
    /\ NumbersLess(ReleaseNumbers(meta[1].version, 0), ReleaseNumbers(VersionChars(v), 0))

\* the store after the step is the one rebuilt from the backup files by release v
RebuiltBy(v) ==
    /\ meta' = <<[type |-> "meta", version |-> VersionChars(v)]>>
    /\ Rows(Media') = BackupRows("media")
    /\ Len(Media') = Cardinality(BackupRows("media"))
    /\ Rows(Captions') = BackupRows("captions")
    /\ Len(Captions') = Cardinality(BackupRows("captions"))

\* C15: opening a library whose store was written by an older release (by
\* release numbers) discards the store and rebuilds it from the backup files.
C15_OlderStoreIsRebuilt ==
    [][(/\ last'.op = "open"
        /\ ~last'.flag
        /\ last'.arg \in Releases
        /\ StoreOlderThan(last'.arg))
       => RebuiltBy(last'.arg)]_vars

\* C16: opening a library whose store file holds no meta record leaves a store
\* with one meta record and exactly one Media and one Captions row per backup
\* file.
C16_MetalessStoreIsRebuilt ==
    [][(/\ last'.op = "open"
        /\ ~last'.flag
        /\ last'.arg \in Releases
        /\ meta = <<>>)
       => RebuiltBy(last'.arg)]_vars

\* C17: delete() on a Media that is no longer in the store raises no error and
\* leaves the store, the backup files and the download ledger as they were.
C17_DeleteAgainIsNoOp ==
    [][last'.op = "media.delete.again"
       => /\ last'.raised = "none"
          /\ UNCHANGED <<meta, Media, Captions, bkup, archive>>]_vars

\* C18: add over a list of sources with invalid ones among them raises no error
\* and adds every valid source of the list, before or after the invalid ones.
C18_InvalidSourcesAreSkipped ==
    [][\A a \in Sources \cup DeadUrls, b \in Sources \cup DeadUrls :
          (last'.op = "media.add.list" /\ last'.arg = a \o "," \o b)
          => /\ last'.raised = "none"
             /\ \A src \in {a, b} \cap (Urls \cup Files) :
                   \E m \in Rows(Media') : m.id = HeldMedia(src).id]_vars

\* C20: add does not fetch a source whose Media the library already holds.
C20_NoSecondFetch ==
    [][last'.op = "media.add"
       => \A src \in last'.fetched : \A m \in Rows(Media) : m.id # HeldMedia(src).id]_vars

\* C21: of two concurrent transcribe requests for the same Media and the same
\* parameter snapshot at most one is inside the transcription engine.
C21_OneEnginePerSnapshot ==
    \A p \in Sessions, q \in Sessions :
        (/\ p # q
         /\ inflight[p].stage = "transcribe"
         /\ inflight[q].stage = "transcribe"
         /\ inflight[p].m.id = inflight[q].m.id)
        => get_param_idstr(inflight[p].settings) # get_param_idstr(inflight[q].settings)

\* C22: an embed call's write of the cache file keeps every entry the file
\* held before the write: concurrent calls lose no update.
C22_NoLostCacheUpdate ==
    [][last'.op = "embed.end"
       => \A i \in 1..Len(embeddings.entries) :
             embeddings.exists
             => \E j \in 1..Len(embeddings'.entries) :
                   embeddings'.entries[j].key = embeddings.entries[i].key]_vars

\* C23: an index call that finds more elements in the cache than the existing
\* index can hold saves an index whose capacity is at least the number of
\* elements and at least 10 times the capacity it had.
C23_RebuildCapacity ==
    [][(/\ last'.op \in {"index", "add"}
        /\ index.exists
        /\ index' # index
        /\ index.max_elements < TotalElements(embeddings'.entries))
       => /\ index'.max_elements >= TotalElements(embeddings'.entries)
          /\ index'.max_elements >= 10 * index.max_elements]_vars

\* an add whose index call holds every element of the cache in an index of 10
\* times their number, more than the small capacity an index starts with
C23_Witness ==
    /\ last.op = "add"
    /\ last.raised = "none"
    /\ index.exists
    /\ TotalElements(embeddings.entries) > SmallMaxElements
    /\ Len(index.items) = TotalElements(embeddings.entries)
    /\ index.max_elements = 10 * TotalElements(embeddings.entries)

\* C24: a transcribe call that follows one for the same Media with the same
\* setting values, the keys in whatever order, resolves to the Captions the
\* first one left: it runs no engine and creates no Captions.
C24_KeyOrderSameCaptions ==
    [][(/\ last.op = "transcribe.reordered"
        /\ last'.op = "transcribe.reordered"
        /\ last'.arg = last.arg)
       => /\ last'.engine = {}
          /\ Captions' = Captions]_vars

\* a transcribe call with the keys out of order that found the Captions stored
C24_Witness ==
    /\ last.op = "transcribe.reordered"
    /\ last.flag
    /\ last.engine = {}
    /\ \E c \in Rows(Captions) :
          c.media_id = last.arg /\ c.id = Sha(last.arg \o get_param_idstr(whisper))

\* C25: after every open of a library (a new FrogBase, an assignment to the
\* library property, a remove_library of the current library) the store has a
\* meta record and its version is the version of the running software.
C25_OpenLeavesRunningVersion ==
    [][(\/ last'.op \in {"open", "library.set"}
        \/ last'.op = "library.remove" /\ last'.flag)
       => /\ meta' # <<>>
          /\ meta'[1].version = version']_vars

\* C26: remove_library of a library that exists deletes its directory; when it
\* is the current library the session is in the default library afterwards,
\* with a store; when it is not, the current library is as it was.
C26_RemoveLibrary ==
    [][\A name \in Libraries :
          (/\ last'.op = "library.remove"
           /\ last'.arg = name
           /\ name = library \/ shelf[name].exists)
          => /\ last'.raised = "none"
             /\ ~shelf'[name].exists
             /\ name = library'
                => dirs' = {} /\ bkup' = {} /\ Media' = <<>> /\ Captions' = <<>>
             /\ name = library => library' = default_library /\ Len(meta') = 1
             /\ name # library
                => UNCHANGED <<library, dirs, rawVtt, media_files, archive, bkup, meta, Media,
                               Captions, doc_ids, model_settings, other_store, embeddings, index,
                               index_meta, index_meta_cut>>]_vars

\* a session opened on lib2 has removed the library it had turned to, after
\* which it is in lib2, the library it was opened on, and that library has a
\* store
C26_Witness ==
    /\ last.op = "library.remove"
    /\ last.flag
    /\ default_library = "lib2"
    /\ last.arg = "frogverse"
    /\ library = "lib2"
    /\ ~shelf[last.arg].exists
    /\ Len(meta) = 1

\* C28: after a transcribe or embed call returns, the model it ran is not in
\* the in-memory model cache when keep_model_in_memory is False and is in it
\* when keep_model_in_memory is True.
C28_ModelKeptOrReleased ==
    [][/\ last'.op = "transcribe.keep" /\ ~last'.flag
          => (whisper.family \o ":" \o whisper.model) \notin models'["p1"]
       /\ last'.op = "transcribe.keep" /\ last'.flag /\ last'.engine # {}
          => (whisper.family \o ":" \o whisper.model) \in models'["p1"]
       /\ last'.op = "embed.keep" /\ last'.raised = "none"
          => (("sbert:" \o SbertModel) \in models'["p1"] <=> last'.flag)]_vars

\* a transcribe call without keep_model_in_memory that ran the engine while
\* the model cache still held the embedding model an earlier call had kept
C28_Witness ==
    /\ last.op = "transcribe.keep"
    /\ ~last.flag
    /\ last.engine # {}
    /\ models["p1"] = {"sbert:" \o SbertModel}

\* the stored Media that have at least one Captions row
CaptionedMedia == {m \in Rows(Media) : \E c \in Rows(Captions) : c.media_id = m.id}

\* C27: filter(captioned=c, **by) returns exactly the stored Media whose
\* attributes equal every pair of by and, when c is given, for which having
\* Captions equals c.
C27_FilterReturnsMatches ==
    [][\A c \in {"None", "True", "False"}, name \in ByNames :
          (last'.op = "filter" /\ last'.arg = c \o "|" \o name)
          => Rows(last'.found) =
                {m \in Rows(Media) :
                    /\ \A k \in DOMAIN ByDict(name) : m[k] = ByDict(name)[k]
                    /\ c = "True" => m \in CaptionedMedia
                    /\ c = "False" => m \notin CaptionedMedia}]_vars

\* a filter for the captioned Media of one source that returned some of the
\* stored Media and left out others
C27_Witness ==
    /\ last.op = "filter"
    /\ last.arg = "True|src_name=youtube"
    /\ last.found # <<>>
    /\ \E m \in Rows(Media) : m.src_name = "disk" /\ m \notin Rows(last.found)

\* C29: captioned() returns exactly the stored Media that have Captions.
C29_CaptionedIsFilter ==
    [][last'.op = "captioned" => Rows(last'.found) = CaptionedMedia]_vars

\* C30: embed over a list in which a Media has no Captions raises nothing,
\* adds no cache entry for that Media and has a cache entry for every Media
\* of the list that has Captions.
C30_EmbedSkipsUncaptioned ==
    [][\A a \in Rows(Media), b \in Rows(Media) :
          (last'.op = "embed.list" /\ last'.arg = a.id \o "," \o b.id)
          => /\ last'.raised = "none"
             /\ \A m \in {a, b} :
                   (\E i \in 1..Len(embeddings'.entries) :
                       embeddings'.entries[i].media_id = m.id)
                   <=> m \in CaptionedMedia]_vars

\* C31: the Captions row a transcribe call creates stores, in its lang field
\* and in its settings snapshot, the language the call passed to the
\* transcription engine, per-call parameter included.
C31_SnapshotIsWhatEngineGot ==
    [][(last'.op = "transcribe" /\ last'.engine = {last'.arg})
       => \A r \in CaptionsOf(Captions', last'.arg) :
             r.created = clock'
             => r.lang = last'.lang /\ r.settings.language = last'.lang]_vars

\* C32: an open that finds a store file it cannot load raises nothing and
\* leaves a store with one meta record and the Media and Captions rows of the
\* backup files.
C32_UnreadableStoreIsRebuilt ==
    [][last'.op = "open.unreadable"
       => /\ last'.raised = "none"
          /\ Len(meta') = 1
          /\ Rows(Media') = BackupRows("media")
          /\ Rows(Captions') = BackupRows("captions")]_vars

\* C33: a MediaManager.add that meets a sidecar caption file whose Captions
\* id is in the store leaves that Captions row, its created timestamp
\* included, and its backup file as they were: no add changes a stored
\* Captions row or the backup file of one.
C33_StoredSidecarIsKept ==
    [][last'.op = "media.add"
       => \A r \in Rows(Captions) :
             /\ r \in Rows(Captions')
             /\ \A g \in bkup : (g.kind = "captions" /\ g.row = r) => g \in bkup']_vars

\* C34: an index call on a library whose label map and index agree, and whose
\* index has room for the new vectors, inserts as many vectors as it gives
\* labels new positions, and leaves at every position a label that names the
\* Captions and the segment of the vector there; so also when some labels of
\* a cache entry are in the label map and some not.
C34_LabelsMatchVectors ==
    [][(/\ last'.op \in {"index", "add"}
        /\ ~(last'.raised = "RuntimeError" /\ LacksRoom')
        /\ DOMAIN index_meta = 0..(Len(index.items) - 1))
       => /\ Len(index'.items) - Len(index.items) = Len(NewLabels)
          /\ \A p \in DOMAIN index_meta' :
                /\ p < Len(index'.items)
                /\ index_meta'[p][2] = index'.items[p + 1][1]
                /\ index_meta'[p][3] = index'.items[p + 1][2]]_vars

\* C35: once an index call has returned an index, the label of every segment
\* of every entry of the embedding cache is in the label map, whatever
\* transcribe, Captions delete, embed and index calls came before.
C35_EveryCachedSegmentIndexed ==
    [][(last'.op = "index" /\ last'.raised = "none" /\ index'.exists)
       => \A k \in 1..Len(embeddings'.entries) :
             \A i \in 1..Len(embeddings'.entries[k].segment_ids) :
                Label(embeddings'.entries[k], i) \in Indexed(index_meta')]_vars

\* C36: a search after a Media or a Captions delete raises nothing and
\* returns only segments of Media and Captions that are stored.
C36_SearchAfterDelete ==
    [][(last'.op = "search" /\ last.op \in {"media.delete", "captions.delete"})
       => /\ last'.raised = "none"
          /\ \A i \in 1..Len(last'.found) :
                /\ MediaGet(Media', last'.found[i][1]).id # "none"
                /\ CaptionsGet(Captions', last'.found[i][1], last'.found[i][2]).id # "none"]_vars

\* every label of the current library's label map names a stored Media and
\* stored Captions
LabelsAreStored ==
    \A p \in DOMAIN index_meta :
        /\ MediaGet(Media, index_meta[p][1]).id # "none"
        /\ CaptionsGet(Captions, index_meta[p][1], index_meta[p][2]).id # "none"

\* C37: a search that follows a change of library (by the setter or by
\* remove_library), in a library whose labels all name stored rows, does not
\* fail on a label and returns only labels of the current library's label map.
C37_SearchInCurrentLibrary ==
    [][(/\ last'.op = "search"
        /\ last.op \in {"library.set", "library.remove"}
        /\ LabelsAreStored)
       => /\ last'.raised \notin {"AttributeError", "KeyError"}
          /\ \A i \in 1..Len(last'.found) : last'.found[i] \in Indexed(index_meta')]_vars

\* C38: FrogBase.add of an invalid source to a library without Media,
\* Captions and embedding cache raises nothing, leaves the Media and Captions
\* tables empty and creates no index file.
C38_AddNothingToEmptyLibrary ==
    [][(/\ last'.op = "add"
        /\ last'.arg = "bad"
        /\ Media = <<>>
        /\ Captions = <<>>
        /\ ~embeddings.exists)
       => /\ last'.raised = "none"
          /\ Media' = <<>>
          /\ Captions' = <<>>
          /\ ~index'.exists]_vars

\* C39: the id MediaManager.add reads off a media directory's name is the id
\* of the Media row it stores for that directory: the backup file of every
\* Media row it adds is named after the row's id, and every Captions row it
\* adds has the media_id of a stored Media row.
C39_DirectoryIdIsMediaId ==
    [][last'.op = "media.add"
       => /\ \A m \in Rows(Media') \ Rows(Media) :
                m.infoloc[2] = m.id \o ".media.fb.json"
          /\ \A c \in Rows(Captions') \ Rows(Captions) :
                \E m \in Rows(Media') : m.id = c.media_id]_vars

====
